---- MODULE Spec2Model ----
(***************************************************************************)
(* MerC: translation of C preprocessor macros into C constructs.           *)
(*                                                                         *)
(* The module models                                                       *)
(*   - the classification engine (predicates/interface_equivalent.py) on   *)
(*     the invocation properties of macros.py,                             *)
(*   - fact ingestion (analyze_transformations.py).                        *)
(*                                                                         *)
(* Conventions.  A Python set is a TLA+ set; a loop over a Python set      *)
(* visits it in an order the language leaves open, so every operator that  *)
(* loops over a set takes the visiting order as a sequence and the actions *)
(* choose that sequence nondeterministically.  A location string           *)
(* "file:line:col" is the sequence of its ':'-separated parts.  An enum    *)
(* member is the string of its name; Python's None is "None".              *)
(***************************************************************************)
EXTENDS Integers, Sequences, FiniteSets, TLC

----------------------------------------------------------------------------
(* Bounds of the model *)

\* largest number of invocations of the classified macro
MaxInvocations == 2
\* largest number of records in an analyzer record stream
MaxRecords == 3

----------------------------------------------------------------------------
(* translationconfig.py *)

Int16 == 16
Int32 == 32
IntSize == {Int16, Int32}

----------------------------------------------------------------------------
(* macros.py: Invocation and its derived properties *)

None == "None"

\* The boolean fields of Invocation that the modelled code reads.
BoolFieldSeq ==
    << "HasStringification", "HasTokenPasting", "HasAlignedArguments",
      "HasSameNameAsOtherDeclaration", "IsExpansionControlFlowStmt",
      "DoesBodyReferenceMacroDefinedAfterMacro",
      "DoesBodyReferenceDeclDeclaredAfterMacro",
      "DoesBodyContainDeclRefExpr", "DoesBodyEndWithCompoundStmt",
      "DoesSubexpressionExpandedFromBodyHaveLocalType",
      "DoesSubexpressionExpandedFromBodyHaveTypeDefinedAfterMacro",
      "DoesAnyArgumentHaveSideEffects",
      "IsICERepresentableByInt32", "IsICERepresentableByInt16",
      "IsDefinitionLocationValid", "IsInvocationLocationValid",
      "IsInvokedInMacroArgument", "IsNamePresentInCPPConditional",
      "IsExpansionICE", "IsExpansionTypeNull", "IsExpansionTypeAnonymous",
      "IsExpansionTypeLocalType", "IsExpansionTypeDefinedAfterMacro",
      "IsExpansionTypeVoid", "IsExpansionTypeFunctionType",
      "IsAnyArgumentTypeVoid", "IsAnyArgumentTypeFunctionType",
      "IsInvokedWhereModifiableValueRequired",
      "IsInvokedWhereAddressableValueRequired",
      "IsAnyArgumentExpandedWhereConstExprRequired",
      "IsInvokedWhereICERequired",
      "IsInvokedWhereConstantExpressionRequired",
      "IsAnyArgumentExpandedWhereModifiableValueRequired",
      "IsAnyArgumentExpandedWhereAddressableValueRequired",
      "IsAnyArgumentConditionallyEvaluated", "IsAnyArgumentNeverExpanded",
      "IsAnyArgumentNotAnExpression" >>

BoolFields == { BoolFieldSeq[k] : k \in DOMAIN BoolFieldSeq }

ASTKindSeq == <<"Decl", "Stmt", "TypeLoc", "Expr">>

DefinitionLocationFilename(i) ==
    IF ~i.IsDefinitionLocationValid
    THEN i.DefinitionLocation
    ELSE i.DefinitionLocation[1]

IsFunctionLike(x) == ~x.IsObjectLike

IsTopLevelNonArgument(i) ==
    /\ i.InvocationDepth = 0
    /\ ~i.IsInvokedInMacroArgument
    /\ i.IsInvocationLocationValid
    /\ i.IsDefinitionLocationValid

IsAligned(i) ==
    /\ IsTopLevelNonArgument(i)
    /\ i.NumASTRoots = 1
    /\ i.HasAlignedArguments

HasSemanticData(i) ==
    /\ IsTopLevelNonArgument(i)
    /\ ~i.IsAnyArgumentNeverExpanded
    /\ IsAligned(i)
    /\ ~(i.ASTKind = "Expr" /\ i.IsExpansionTypeNull)

CanBeTurnedIntoEnum(i) == i.IsExpansionICE

IsExpansionConstantExpression(i) ==
    /\ i.ASTKind = "Expr"
    /\ ~i.DoesBodyContainDeclRefExpr

CanBeTurnedIntoFunction(i) ==
    /\ (i.ASTKind = "Stmt" \/ i.ASTKind = "Expr")
    /\ ~i.IsInvokedWhereICERequired

MustAlterDeclarationsToTransform(i) ==
    \/ i.HasSameNameAsOtherDeclaration
    \/ i.DoesBodyReferenceMacroDefinedAfterMacro
    \/ i.DoesBodyReferenceDeclDeclaredAfterMacro
    \/ i.DoesSubexpressionExpandedFromBodyHaveLocalType
    \/ i.DoesSubexpressionExpandedFromBodyHaveTypeDefinedAfterMacro
    \/ i.IsExpansionTypeAnonymous
    \/ i.IsExpansionTypeLocalType
    \/ i.IsExpansionTypeDefinedAfterMacro
    \/ i.ASTKind = "TypeLoc"

MustUseMetaprogrammingToTransform(i) ==
    \/ (i.HasStringification \/ i.HasTokenPasting)
    \/ /\ HasSemanticData(i)
       /\ IsFunctionLike(i)
       /\ CanBeTurnedIntoFunction(i)
       /\ i.IsAnyArgumentNotAnExpression
    \/ i.IsExpansionControlFlowStmt
    \/ i.IsNamePresentInCPPConditional

IsExpression(i) == i.ASTKind = "Expr"

IsStatement(i) == i.ASTKind = "Stmt"

\* Mutant of CanBeTurnedIntoEnumWithIntSize: the configured width is ignored.
CanBeTurnedIntoEnumWithIntSize_int32_only(i, int_size) ==
    /\ CanBeTurnedIntoEnum(i)
    /\ i.IsICERepresentableByInt32

CanBeTurnedIntoEnumWithIntSize(i, int_size) ==
    /\ CanBeTurnedIntoEnum(i)
    /\ IF int_size = Int32
       THEN i.IsICERepresentableByInt32
       ELSE i.IsICERepresentableByInt16

IsCalledByName(i) ==
    \/ i.IsAnyArgumentConditionallyEvaluated
    \/ i.DoesAnyArgumentHaveSideEffects

----------------------------------------------------------------------------
(* macros.py: PreprocessorData *)

\* PreprocessorData(mm, inspected_macro_names, local_includes); mm is a
\* function from Macro records to sets of Invocation records.
PreprocessorData(mm, inspected_macro_names, local_includes) ==
    [ mm |-> mm,
      inspected_macro_names |-> inspected_macro_names,
      local_includes |-> local_includes ]

\* The orders in which a loop may visit the set S: the sequences that
\* enumerate S without repetition.
IterationOrders(S) ==
    { o \in [1..Cardinality(S) -> S] :
        \A a, b \in 1..Cardinality(S) : a # b => o[a] # o[b] }

----------------------------------------------------------------------------
(* predicates/interface_equivalent.py *)

VALID == "VALID"

Condition(check, result) == [check |-> check, result |-> result]

\* The lambda of a Condition, named by the text of its body.
ConditionCheck(check, i, pd) ==
    CASE check = "HasSemanticData" -> HasSemanticData(i)
      [] check = "not DoesBodyEndWithCompoundStmt" ->
            ~i.DoesBodyEndWithCompoundStmt
      [] check = "not AddressableOrModifiableValueRequired" ->
            ~i.IsInvokedWhereAddressableValueRequired
              /\ ~i.IsInvokedWhereModifiableValueRequired
      [] check = "DefinitionLocationFilename not in local_includes" ->
            DefinitionLocationFilename(i) \notin pd.local_includes
      [] check = "not MustAlterDeclarationsToTransform" ->
            ~MustAlterDeclarationsToTransform(i)
      [] check = "not MustUseMetaprogrammingToTransform" ->
            ~MustUseMetaprogrammingToTransform(i)
      [] check = "Name not in inspected_macro_names" ->
            i.Name \notin pd.inspected_macro_names
      [] check = "not IsInvokedWhereConstantExpressionRequired" ->
            ~i.IsInvokedWhereConstantExpressionRequired
      [] check = "IsExpansionConstantExpression" ->
            IsExpansionConstantExpression(i)
      [] check = "IsExpansionICE" -> i.IsExpansionICE
      [] check = "not IsExpansionTypeVoid" -> ~i.IsExpansionTypeVoid
      [] check = "IsExpression" -> IsExpression(i)
      [] check = "IsExpansionTypeVoid" -> i.IsExpansionTypeVoid
      [] check = "IsExpression or IsStatement" ->
            IsExpression(i) \/ IsStatement(i)
      [] check = "not IsCalledByName" -> ~IsCalledByName(i)
      [] check = "not IsAnyArgumentExpandedWhereConstExprRequired" ->
            ~i.IsAnyArgumentExpandedWhereConstExprRequired
      [] check = "not IsAnyArgumentTypeVoid" -> ~i.IsAnyArgumentTypeVoid
      [] check = "not ArgumentAddressableOrModifiableValueRequired" ->
            ~(i.IsAnyArgumentExpandedWhereModifiableValueRequired
                \/ i.IsAnyArgumentExpandedWhereAddressableValueRequired)
      [] check = "not IsAnyArgumentNotAnExpression" ->
            ~i.IsAnyArgumentNotAnExpression

\* Mutant of GLOBAL_CONDITIONS: the inspected-by-CPP names are not consulted.
GLOBAL_CONDITIONS_without_inspected_names ==
    << Condition("HasSemanticData", "SYNTACTICALLY_INVALID_PROPERTY"),
       Condition("not DoesBodyEndWithCompoundStmt",
                 "SYNTACTICALLY_INVALID_PROPERTY"),
       Condition("not AddressableOrModifiableValueRequired",
                 "ADDRESSABLE_VALUE_REQUIRED"),
       Condition("DefinitionLocationFilename not in local_includes",
                 "CAPTURES_ENVIRONMENT"),
       Condition("not MustAlterDeclarationsToTransform",
                 "CAPTURES_ENVIRONMENT"),
       Condition("not MustUseMetaprogrammingToTransform",
                 "USE_METAPROGRAMMING") >>

GLOBAL_CONDITIONS ==
    << Condition("HasSemanticData", "SYNTACTICALLY_INVALID_PROPERTY"),
       Condition("not DoesBodyEndWithCompoundStmt",
                 "SYNTACTICALLY_INVALID_PROPERTY"),
       Condition("not AddressableOrModifiableValueRequired",
                 "ADDRESSABLE_VALUE_REQUIRED"),
       Condition("DefinitionLocationFilename not in local_includes",
                 "CAPTURES_ENVIRONMENT"),
       Condition("not MustAlterDeclarationsToTransform",
                 "CAPTURES_ENVIRONMENT"),
       Condition("not MustUseMetaprogrammingToTransform",
                 "USE_METAPROGRAMMING"),
       Condition("Name not in inspected_macro_names",
                 "USE_METAPROGRAMMING") >>

VARIABLE_CONDITIONS ==
    << Condition("not IsInvokedWhereConstantExpressionRequired",
                 "INVOKED_WHERE_CONSTANT_EXPRESSION_REQUIRED"),
       Condition("IsExpansionConstantExpression",
                 "EXPANSION_NOT_CONSTANT_EXPRESSION") >>

ENUM_CONDITIONS ==
    << Condition("IsExpansionICE", "EXPANSION_NOT_ICE") >>

NON_VOID_CONDITIONS ==
    << Condition("not IsInvokedWhereConstantExpressionRequired",
                 "INVOKED_WHERE_CONSTANT_EXPRESSION_REQUIRED"),
       Condition("not IsExpansionTypeVoid", "EXPANSION_TYPE_VOID"),
       Condition("IsExpression", "INVALID_STATEMENT_KIND") >>

VOID_CONDITIONS ==
    << Condition("not IsInvokedWhereConstantExpressionRequired",
                 "INVOKED_WHERE_CONSTANT_EXPRESSION_REQUIRED"),
       Condition("IsExpansionTypeVoid", "EXPANSION_TYPE_NON_VOID"),
       Condition("IsExpression or IsStatement", "INVALID_STATEMENT_KIND") >>

ARGUMENT_CONDITIONS ==
    << Condition("not IsCalledByName", "CALLED_BY_NAME"),
       Condition("not IsAnyArgumentExpandedWhereConstExprRequired",
                 "ARGUMENT_INVOKED_WHERE_CONSTANT_EXPRESSION_REQUIRED"),
       Condition("not IsAnyArgumentTypeVoid", "ARGUMENT_TYPE_VOID"),
       Condition("not ArgumentAddressableOrModifiableValueRequired",
                 "ARGUMENT_ADDRESSABLE_VALUE_REQUIRED"),
       Condition("not IsAnyArgumentNotAnExpression",
                 "ARGUMENT_TYPE_NOT_EXPRESSION") >>

\* The conditions of the list that invocation i fails, by index.
FailedConditions(i, pd, conditions) ==
    { c \in DOMAIN conditions : ~ConditionCheck(conditions[c].check, i, pd) }

Minimum(S) == CHOOSE x \in S : \A y \in S : x <= y

\* Mutant of check_conditions: only the first visited invocation is checked.
check_conditions_first_visited(invocations, pd, conditions) ==
    IF invocations = <<>>
       \/ FailedConditions(invocations[1], pd, conditions) = {}
    THEN VALID
    ELSE conditions[Minimum(FailedConditions(
             invocations[1], pd, conditions))].result

\* "invocations" is the invocation set in the order the outer loop visits
\* it.  The loops return at the first visited invocation that fails a
\* condition, with the first condition of the list that this invocation
\* fails.
check_conditions(invocations, pd, conditions) ==
    LET failing == { k \in DOMAIN invocations :
                       FailedConditions(invocations[k], pd, conditions) # {} }
    IN  IF failing = {}
        THEN VALID
        ELSE conditions[Minimum(FailedConditions(
                 invocations[Minimum(failing)], pd, conditions))].result

\* Mutant of structural_preconditions: the scope is checked first.
structural_preconditions_scope_first(m, is_) ==
    IF ~m.IsDefinedAtGlobalScope
    THEN "NON_GLOBAL_SCOPE"
    ELSE IF ~(\A k \in DOMAIN is_ : HasSemanticData(is_[k]))
    THEN "SYNTACTICALLY_INVALID_PROPERTY"
    ELSE IF Len(is_) = 0
    THEN "MACRO_NEVER_EXPANDED"
    ELSE IF Cardinality({ is_[k].TypeSignature : k \in DOMAIN is_ }) # 1
    THEN "POLYMORPHIC"
    ELSE VALID

\* ie_def, lines 105-115: the checks made before any condition list.
structural_preconditions(m, is_) ==
    IF ~(\A k \in DOMAIN is_ : HasSemanticData(is_[k]))
    THEN "SYNTACTICALLY_INVALID_PROPERTY"
    ELSE IF Len(is_) = 0
    THEN "MACRO_NEVER_EXPANDED"
    ELSE IF Cardinality({ is_[k].TypeSignature : k \in DOMAIN is_ }) # 1
    THEN "POLYMORPHIC"
    ELSE IF ~m.IsDefinedAtGlobalScope
    THEN "NON_GLOBAL_SCOPE"
    ELSE VALID

\* Mutant of object_like_cascade: Enum is tried before GlobalVariable.
object_like_cascade_enum_first(is_, pd, translation_config) ==
    LET variable_condition_check ==
            check_conditions(is_, pd, VARIABLE_CONDITIONS)
        enum_condition_check ==
            check_conditions(is_, pd, ENUM_CONDITIONS)
    IN  IF enum_condition_check = VALID
           /\ \A k \in DOMAIN is_ :
                CanBeTurnedIntoEnumWithIntSize(is_[k],
                                               translation_config.int_size)
        THEN <<enum_condition_check, "ENUM">>
        ELSE IF variable_condition_check = VALID
        THEN <<VALID, "GLOBAL_VARIABLE">>
        ELSE <<enum_condition_check, None>>

\* ie_def, lines 123-139: the branch of an object-like macro.
object_like_cascade(is_, pd, translation_config) ==
    LET variable_condition_check ==
            check_conditions(is_, pd, VARIABLE_CONDITIONS)
        enum_condition_check ==
            check_conditions(is_, pd, ENUM_CONDITIONS)
    IN  IF variable_condition_check = VALID
        THEN <<VALID, "GLOBAL_VARIABLE">>
        ELSE IF enum_condition_check = VALID
        THEN IF \A k \in DOMAIN is_ :
                   CanBeTurnedIntoEnumWithIntSize(is_[k],
                                                  translation_config.int_size)
             THEN <<enum_condition_check, "ENUM">>
             ELSE <<"INVOKED_WHERE_ICE_REQUIRED_AND_GREATER_THAN_INT_SIZE",
                    None>>
        ELSE <<enum_condition_check, None>>

\* Mutant of function_like_cascade: NonVoidFunction is never tried.
function_like_cascade_void_only(is_, pd, translation_config) ==
    LET argument_condition_check ==
            check_conditions(is_, pd, ARGUMENT_CONDITIONS)
        void_condition_check ==
            check_conditions(is_, pd, VOID_CONDITIONS)
    IN  IF argument_condition_check # VALID
        THEN <<argument_condition_check, None>>
        ELSE IF void_condition_check = VALID
        THEN <<void_condition_check, "VOID_FUNCTION">>
        ELSE <<void_condition_check, None>>

\* ie_def, lines 142-162: the branch of a function-like macro.
function_like_cascade(is_, pd, translation_config) ==
    LET argument_condition_check ==
            check_conditions(is_, pd, ARGUMENT_CONDITIONS)
        non_void_condition_check ==
            check_conditions(is_, pd, NON_VOID_CONDITIONS)
        void_condition_check ==
            check_conditions(is_, pd, VOID_CONDITIONS)
    IN  IF argument_condition_check # VALID
        THEN <<argument_condition_check, None>>
        ELSE IF non_void_condition_check = VALID
        THEN <<non_void_condition_check, "NON_VOID_FUNCTION">>
        ELSE IF void_condition_check = VALID
        THEN <<void_condition_check, "VOID_FUNCTION">>
        ELSE <<void_condition_check, None>>

\* ie_def(m, pd, translation_config), with is_ the order in which the loops
\* of this call visit pd.mm[m].  The result is the pair (IEResult, target);
\* a failed assert is the pair ("AssertionError", None).
ie_def(m, pd, translation_config, is_) ==
    IF ~(\A k \in DOMAIN is_ : IsTopLevelNonArgument(is_[k]))
    THEN <<"AssertionError", None>>
    ELSE
    LET structural == structural_preconditions(m, is_)
        global_condition_check == check_conditions(is_, pd, GLOBAL_CONDITIONS)
    IN  IF structural # VALID
        THEN <<structural, None>>
        ELSE IF global_condition_check # VALID
        THEN <<global_condition_check, None>>
        ELSE IF m.IsObjectLike
        THEN object_like_cascade(is_, pd, translation_config)
        ELSE function_like_cascade(is_, pd, translation_config)

----------------------------------------------------------------------------
(* The inputs of the classification: one macro and its invocations *)

DefLocA == <<"a.h", "1", "9">>
DefLocB == <<"b.c", "7", "9">>

Macro(Name, IsObjectLike, IsDefinitionLocationValid, IsDefinedAtGlobalScope, Body, DefinitionLocation, EndDefinitionLocation) ==
    [ Name |-> Name,
      IsObjectLike |-> IsObjectLike,
      IsDefinitionLocationValid |-> IsDefinitionLocationValid,
      IsDefinedAtGlobalScope |-> IsDefinedAtGlobalScope,
      Body |-> Body,
      DefinitionLocation |-> DefinitionLocation,
      EndDefinitionLocation |-> EndDefinitionLocation ]

\* An invocation with every boolean field as given by "on" (the set of the
\* fields that are true).
Invocation(Name, IsObjectLike, ASTKind, TypeSignature, on) ==
    [ f \in BoolFields |-> f \in on ] @@
    [ Name |-> Name,
      DefinitionLocation |-> DefLocA,
      InvocationLocation |-> <<"main.c", "1", "1">>,
      ASTKind |-> ASTKind,
      TypeSignature |-> TypeSignature,
      InvocationDepth |-> 0,
      NumASTRoots |-> 1,
      IsObjectLike |-> IsObjectLike ]

WellFormed ==
    { "HasAlignedArguments", "IsDefinitionLocationValid",
      "IsInvocationLocationValid" }

\* #define FOO 100, used in an expression
BaseVariable ==
    Invocation("FOO", TRUE, "Expr", "int FOO",
               WellFormed \cup { "IsExpansionICE", "IsICERepresentableByInt32",
                                 "IsICERepresentableByInt16" })
\* #define FOO 100, used as an array bound
BaseEnum ==
    Invocation("FOO", TRUE, "Expr", "int FOO",
               WellFormed \cup { "IsExpansionICE", "IsICERepresentableByInt32",
                                 "IsICERepresentableByInt16",
                                 "IsInvokedWhereICERequired",
                                 "IsInvokedWhereConstantExpressionRequired" })
\* #define FOO(x) ((x)*(x))
BaseNonVoid ==
    Invocation("FOO", FALSE, "Expr", "int FOO(int x)", WellFormed)
\* #define FOO(msg) fprintf(stderr, msg)
BaseVoid ==
    Invocation("FOO", FALSE, "Expr", "void FOO(const char *msg)",
               WellFormed \cup { "IsExpansionTypeVoid" })

Bases(IsObjectLike) ==
    IF IsObjectLike THEN <<BaseVariable, BaseEnum>>
    ELSE <<BaseNonVoid, BaseVoid>>

\* The invocations that differ from base in at most one fact, numbered from
\* 0 (base itself): one boolean field negated, another ASTKind, another type
\* signature, a nested invocation, two AST roots, a definition in another
\* file, or an expansion whose value fits neither int width.
NumDeviations == Len(BoolFieldSeq) + Len(ASTKindSeq) + 5

Deviation(base, d) ==
    LET nb == Len(BoolFieldSeq)
        nk == Len(ASTKindSeq)
    IN  IF d = 0 THEN base
        ELSE IF d <= nb
        THEN [base EXCEPT ![BoolFieldSeq[d]] = ~base[BoolFieldSeq[d]]]
        ELSE IF d <= nb + nk
        THEN [base EXCEPT !.ASTKind = ASTKindSeq[d - nb]]
        ELSE CASE d - nb - nk = 1 ->
                    [base EXCEPT !.TypeSignature = "char FOO"]
               [] d - nb - nk = 2 -> [base EXCEPT !.InvocationDepth = 1]
               [] d - nb - nk = 3 -> [base EXCEPT !.NumASTRoots = 2]
               [] d - nb - nk = 4 ->
                    [base EXCEPT !.DefinitionLocation = DefLocB]
               [] d - nb - nk = 5 ->
                    [base EXCEPT !.IsICERepresentableByInt32 = FALSE,
                                 !.IsICERepresentableByInt16 = FALSE]

\* The pool of invocations of a macro of the given kind, numbered from 0.
PoolSize(IsObjectLike) == Len(Bases(IsObjectLike)) * (NumDeviations + 1)

PoolAt(IsObjectLike, p) ==
    Deviation(Bases(IsObjectLike)[(p \div (NumDeviations + 1)) + 1],
              p % (NumDeviations + 1))

InvocationLocations ==
    [ n \in 1..(MaxInvocations + 1) |-> <<"main.c", ToString(n), "1">> ]

\* The invocation sets of at most MaxInvocations invocations of the pool at
\* distinct invocation locations, as ingestion leaves them.  Nothing reads
\* the invocation location after ingestion, so one set stands for the sets
\* that differ from it by a permutation of the locations.
InvocationSets(IsObjectLike) ==
    UNION { { { [PoolAt(IsObjectLike, c[k])
                   EXCEPT !.InvocationLocation = InvocationLocations[k]]
                : k \in 1..n }
              : c \in { c \in [1..n -> 0..(PoolSize(IsObjectLike) - 1)] :
                          \A k \in 1..(n - 1) : c[k] <= c[k + 1] } }
            : n \in 0..MaxInvocations }

----------------------------------------------------------------------------
(* analyze_transformations.py: fact ingestion *)

\* a record of the stream: the fields of rec and its Kind
Entry(Kind, rec) == [Kind |-> Kind] @@ rec

\* del entry["Kind"]
DelKind(entry) == [ f \in DOMAIN entry \ {"Kind"} |-> entry[f] ]

\* Counter(obj["Name"] for obj in entries if obj["Kind"] == "Definition")
name_counts(es) ==
    LET definitions == { k \in DOMAIN es : es[k].Kind = "Definition" }
    IN  [ name \in { es[k].Name : k \in definitions } |->
            Cardinality({ k \in definitions : es[k].Name = name }) ]

\* Mutant of filter_definitions: a name defined at least once is kept.
filter_definitions_at_least_once(es) ==
    LET filtered_names ==
            { name \in DOMAIN name_counts(es) : name_counts(es)[name] >= 1 }
        Keep(obj) ==
            ~(\/ (obj.Kind = "Definition" /\ obj.Name \notin filtered_names)
              \/ (obj.Kind = "Invocation" /\ obj.Name \notin filtered_names))
    IN  SelectSeq(es, Keep)

\* Mutant of filter_definitions: the invocations are not filtered.
filter_definitions_definitions_only(es) ==
    LET filtered_names ==
            { name \in DOMAIN name_counts(es) : name_counts(es)[name] = 1 }
        Keep(obj) ==
            ~(obj.Kind = "Definition" /\ obj.Name \notin filtered_names)
    IN  SelectSeq(es, Keep)

filter_definitions(es) ==
    LET filtered_names ==
            { name \in DOMAIN name_counts(es) : name_counts(es)[name] = 1 }
        Keep(obj) ==
            ~(\/ (obj.Kind = "Definition" /\ obj.Name \notin filtered_names)
              \/ (obj.Kind = "Invocation" /\ obj.Name \notin filtered_names))
    IN  SelectSeq(es, Keep)

\* list.sort(key=lambda obj: obj["Kind"] == "Definition", reverse=True): the
\* sort is stable, also with reverse=True, so the definitions come first and
\* each group keeps its order.
SortDefinitionsFirst(es) ==
    LET IsDefinition(obj) == obj.Kind = "Definition"
        IsOther(obj) == obj.Kind # "Definition"
    IN  SelectSeq(es, IsDefinition) \o SelectSeq(es, IsOther)

\* line 126: the source directory is the empty string
src_dir == ""

\* str.startswith, for the one prefix the code passes: every string starts
\* with the empty string.
StartsWith(location, prefix) == prefix = ""

\* Macro.defined_in
defined_in(macro, dir) ==
    macro.IsDefinitionLocationValid
        /\ StartsWith(macro.DefinitionLocation, dir)

----------------------------------------------------------------------------
(* translationstats.py *)

\* the value None where the other values are records
PyNone == [type |-> "NoneType"]

\* an exception raised by the evaluation of the expression "at"
Raise(exception, at) == [type |-> "raise", exception |-> exception, at |-> at]

MacroType == { "OBJECT_LIKE", "FUNCTION_LIKE" }

TechnicalSkip == { "BODY_CONTAINS_DECL_REF_EXPR", "DEFINITION_HAS_FUNCTION_POINTER" }

SkipRecord(macro, invocations, skip_type) ==
    [ type |-> "SkipRecord", macro |-> macro, invocations |-> invocations,
      skip_type |-> skip_type ]

TranslationRecord(macro, invocations, macro_translation, translation_type) ==
    [ type |-> "TranslationRecord", macro |-> macro,
      invocations |-> invocations, macro_translation |-> macro_translation,
      translation_type |-> translation_type ]

\* TranslationRecords(): the counter and the two lists are empty
TranslationRecords ==
    [ records_by_type |-> <<>>, translation_records |-> <<>>,
      skip_records |-> <<>> ]

total_translated(self) == Len(self.translation_records)

total_skipped(self) == Len(self.skip_records)

get_macro_type(macro) ==
    IF IsFunctionLike(macro) THEN "FUNCTION_LIKE" ELSE "OBJECT_LIKE"

total_translated_by_type(self, macro_type) ==
    Cardinality({ k \in DOMAIN self.translation_records :
                    get_macro_type(self.translation_records[k].macro)
                        = macro_type })

total_skipped_by_type(self, macro_type) ==
    Cardinality({ k \in DOMAIN self.skip_records :
                    get_macro_type(self.skip_records[k].macro) = macro_type })

----------------------------------------------------------------------------
(* macrotranslator.py: MacroTranslator                                     *)
(*                                                                         *)
(* Each method is modelled as called on a MacroTranslator on its own; it   *)
(* ends with the first exception that one of its expressions raises:       *)
(*   - ie_def takes three arguments and line 40 passes two (TypeError);    *)
(*   - SkipType is the union type TechnicalSkip | IEResult, which has no   *)
(*     attributes (AttributeError);                                        *)
(*   - TranslationType is imported by line 6 from translationstats, which  *)
(*     does not define it (ImportError), so the name is never bound.       *)

\* the files of the model whose name ends in ".h"
HeaderFiles == { "a.h", "c.h" }

\* str.endswith, for the one suffix the code passes
endswith(filename, suffix) == suffix = ".h" /\ filename \in HeaderFiles

\* lines 71-72
invocation_has_function_type(invocations) ==
    \E k \in DOMAIN invocations :
        \/ invocations[k].IsExpansionTypeFunctionType
        \/ invocations[k].IsAnyArgumentTypeFunctionType

\* should_skip_due_to_technical_limitations(macro, invocations), with
\* "invocations" the set in the order its iterator yields it: the
\* DeclRefExpr test reads next(iter(invocations)) only.
should_skip_due_to_technical_limitations(macro, invocations) ==
    IF invocation_has_function_type(invocations)
    THEN Raise("AttributeError", "SkipType.DEFINITION_HAS_FUNCTION_POINTER")
    ELSE IF invocations = <<>>
    THEN Raise("StopIteration", "next(iter(invocations))")
    ELSE LET invocation == invocations[1]
         IN  IF /\ invocation.DoesBodyContainDeclRefExpr
                /\ endswith(DefinitionLocationFilename(invocation), ".h")
             THEN Raise("AttributeError",
                        "SkipType.BODY_CONTAINS_DECL_REF_EXPR")
             ELSE PyNone

\* translate_function_like_macro(macro, invocations)
translate_function_like_macro(macro, invocations) ==
    IF invocations = <<>>
    THEN Raise("StopIteration", "next(iter(invocations))")
    ELSE LET invocation == invocations[1]
             is_void == invocation.IsExpansionTypeVoid
                            \/ IsStatement(invocation)
         IN  IF ~is_void
             THEN Raise("ImportError", "TranslationType.NON_VOID")
             ELSE Raise("ImportError", "TranslationType.VOID")

\* translate_object_like_macro(self, macro, invocations)
translate_object_like_macro(self, macro, invocations) ==
    IF invocations = <<>>
    THEN Raise("StopIteration", "next(iter(invocations))")
    ELSE LET can_translate_to_enum ==
                 \A k \in DOMAIN invocations :
                     invocations[k].IsInvokedWhereICERequired =>
                         CanBeTurnedIntoEnumWithIntSize(
                             invocations[k], self.translation_config.int_size)
             invoked_where_ICE_required ==
                 \E k \in DOMAIN invocations :
                     invocations[k].IsInvokedWhereICERequired
             invoked_where_constant_expression_required ==
                 \E k \in DOMAIN invocations :
                     invocations[k].IsInvokedWhereConstantExpressionRequired
         IN  IF invoked_where_ICE_required
             THEN IF can_translate_to_enum
                  THEN Raise("ImportError", "TranslationType.ENUM")
                  ELSE Raise("AttributeError",
                             "SkipType.CANT_FIT_ICE_IN_ENUM_SIZE")
             ELSE IF ~invoked_where_constant_expression_required
             THEN Raise("ImportError", "TranslationType.CONST_STATIC")
             ELSE Raise("AttributeError",
                        "SkipType.INVOCATION_REQUIRES_CONSTANT_EXPRESSION")

\* get_macro_record(self, macro, invocations, pd): the call of line 40
\* raises before anything else is evaluated.
get_macro_record(self, macro, invocations, pd) ==
    Raise("TypeError", "ie_def(macro, pd)")

\* lines 31-35: the translationMap built from the records that the
\* translator holds, a translation record after every skip record
translationMap(self) ==
    LET skipped == { self.skip_records[k].macro
                        : k \in DOMAIN self.skip_records }
        translated == { self.translation_records[k].macro
                           : k \in DOMAIN self.translation_records }
        last(macro) == CHOOSE k \in DOMAIN self.translation_records :
                          /\ self.translation_records[k].macro = macro
                          /\ \A j \in DOMAIN self.translation_records :
                                self.translation_records[j].macro = macro
                                    => j <= k
    IN  [ macro \in skipped \cup translated |->
            IF macro \in translated
            THEN self.translation_records[last(macro)].macro_translation
            ELSE PyNone ]

\* generate_macro_translations(self, pd): the loop of line 24 ends with the
\* exception of its first get_macro_record; over an empty macro map the
\* method returns the translationMap of the records of self.
generate_macro_translations(self, pd) ==
    IF DOMAIN pd.mm = {}
    THEN [ type |-> "dict",
           translationMap |-> translationMap(self.translation_stats) ]
    ELSE LET macro == CHOOSE macro \in DOMAIN pd.mm : TRUE
         IN  get_macro_record(self, macro, pd.mm[macro], pd)

----------------------------------------------------------------------------
(* emit_translations.py: the source overlay                                *)
(*                                                                         *)
(* A str is the sequence of its pieces: the newline, the comment           *)
(* delimiters and pieces of other text.  A path is the sequence of its     *)
(* components.                                                             *)

newline == "\n"

\* a str value, where None is possible too
Str(pieces) == [type |-> "str", pieces |-> pieces]

\* a pathlib.Path value, where None is possible too
Path(parts) == [type |-> "Path", parts |-> parts]

\* sub in s, for a delimiter
Contains(s, sub) == \E k \in DOMAIN s : s[k] = sub

\* s.split(sub, 1)[1]
SplitAfterFirst(s, sub) ==
    LET first == CHOOSE k \in DOMAIN s :
                    /\ s[k] = sub
                    /\ \A j \in 1..(k - 1) : s[j] # sub
    IN  SubSeq(s, first + 1, Len(s))

\* int(s) for the line numbers of the model
int(s) == CHOOSE n \in 0..9 : ToString(n) = s

RECURSIVE Concat(_)
\* ''.join(lines): what writelines writes
Concat(lines) ==
    IF lines = <<>> THEN <<>> ELSE Head(lines) \o Concat(Tail(lines))

\* a.startswith(b) for two names: equal, or "in" before "in2"
NameStartsWith(a, b) == a = b \/ (a = "in2" /\ b = "in")

\* str(path).startswith(str(dir)): a prefix of the text, so the last
\* component of dir need only begin the component of path at its place
PathStrStartsWith(path, dir) ==
    /\ Len(dir) <= Len(path)
    /\ \A k \in 1..(Len(dir) - 1) : path[k] = dir[k]
    /\ dir # <<>> => NameStartsWith(path[Len(dir)], dir[Len(dir)])

\* PurePath.is_relative_to: other is path or one of its parents
is_relative_to(path, other) ==
    /\ Len(other) <= Len(path)
    /\ SubSeq(path, 1, Len(other)) = other

\* os.path.relpath(path, start)
relpath(path, start) ==
    LET common == CHOOSE c \in 0..Len(start) :
                     /\ c <= Len(path)
                     /\ SubSeq(path, 1, c) = SubSeq(start, 1, c)
                     /\ \/ c = Len(start)
                        \/ c = Len(path)
                        \/ path[c + 1] # start[c + 1]
    IN  [ k \in 1..(Len(start) - common) |-> ".." ]
            \o SubSeq(path, common + 1, Len(path))

\* lines 53-76: the lines of a file after the definition first..last (line
\* numbers from 1) is replaced by translation
overlay_definition(src_file_content, first, last, translation) ==
    LET endLineContent == src_file_content[last]
        endLineComment ==
            IF Contains(endLineContent, "/*") /\ ~Contains(endLineContent, "*/")
            THEN <<"/*">> \o SplitAfterFirst(endLineContent, "/*")
            ELSE <<>>
        cleared == [ i \in DOMAIN src_file_content |->
                       IF first <= i /\ i <= last THEN <<newline>>
                       ELSE src_file_content[i] ]
        inserted == [cleared EXCEPT ![first] = translation]
    IN  [inserted EXCEPT ![last] = @ \o endLineComment \o <<newline>>]

----------------------------------------------------------------------------
(* run_maki_on_compile_commands.py                                         *)
(*                                                                         *)
(* A dict is the sequence of its items in insertion order, which is the    *)
(* order of the keys in the JSON text for a dict that json.loads built.    *)

\* dict(obj_tuple), line 210
dict(obj_tuple) == [type |-> "dict", items |-> obj_tuple]

\* tuple(obj.items()), line 205
items_tuple(obj) == obj.items

\* the outcome of subprocess.run(args, check=True): the process has exited
\* with returncode, with stdout on its standard output
CompletedProcess(returncode, stdout) ==
    [returncode |-> returncode, stdout |-> stdout]

\* lines 104-126, without a cache: the list that json.loads reads from the
\* standard output, or [] after CalledProcessError
run_maki_on_compile_command(process) ==
    IF process.returncode # 0 THEN <<>> ELSE process.stdout

\* lines 204-206: the elements that the loop adds to results_set
obj_tuples(result) == { items_tuple(result[k]) : k \in DOMAIN result }

\* CompileCommand
CompileCommand(directory, arguments, file) ==
    [directory |-> directory, arguments |-> arguments, file |-> file]

\* the arguments of the model that name a source file
SourceFileArguments == { "a.c", "b.c" }

\* is_source_file: arg.endswith('.c')
is_source_file(arg) == arg \in SourceFileArguments

\* split_compile_commands_by_src_file
split_compile_commands_by_src_file(cc) ==
    LET arguments_no_src_files ==
            SelectSeq(cc.arguments, LAMBDA arg : ~is_source_file(arg))
        src_files == SelectSeq(cc.arguments, is_source_file)
    IN  [ k \in DOMAIN src_files |->
            CompileCommand(cc.directory, arguments_no_src_files,
                           src_files[k]) ]

\* CompileCommand.get_cache_key: the SHA-1 digest of repr(self.arguments);
\* two digests are equal exactly when the argument lists are
get_cache_key(cc) == [sha1 |-> cc.arguments]

\* AnalysisCache.get_cache_path, below the cache directory
get_cache_path(cc) == <<get_cache_key(cc), ".json">>

\* The assert statements that ie_def(m, pd, translation_config) evaluates,
\* with is_ the order in which its loops visit pd.mm[m]: each is the place
\* of the assert, the index of the invocation it is evaluated on, and the
\* value of the asserted expression.
\*   - line 103 asserts IsTopLevelNonArgument of every invocation;
\*   - the list of line 105 evaluates HasSemanticData of every invocation,
\*     whose list evaluates IsAligned (macros.py line 111);
\*   - check_conditions over GLOBAL_CONDITIONS visits the invocations up
\*     to the first that fails a condition, and evaluates for each the
\*     conditions up to the first it fails: MustAlterDeclarationsToTransform
\*     is the fifth (macros.py line 193), and the sixth evaluates
\*     CanBeTurnedIntoFunction (macros.py line 161) after HasSemanticData
\*     and IsFunctionLike;
\*   - the list of line 134 evaluates CanBeTurnedIntoEnum of every
\*     invocation (macros.py line 128).
ie_def_asserts(m, pd, translation_config, is_) ==
    LET passed_103 == \A k \in DOMAIN is_ : IsTopLevelNonArgument(is_[k])
        failed(k) == FailedConditions(is_[k], pd, GLOBAL_CONDITIONS)
        failing == { k \in DOMAIN is_ : failed(k) # {} }
        visited == IF failing = {} THEN DOMAIN is_
                   ELSE 1..Minimum(failing)
        reaches(k, c) == k \in visited /\ \A d \in 1..(c - 1) : d \notin failed(k)
        past_115 == passed_103 /\ structural_preconditions(m, is_) = VALID
        at_134 ==
            /\ past_115
            /\ check_conditions(is_, pd, GLOBAL_CONDITIONS) = VALID
            /\ m.IsObjectLike
            /\ check_conditions(is_, pd, VARIABLE_CONDITIONS) # VALID
            /\ check_conditions(is_, pd, ENUM_CONDITIONS) = VALID
    IN  { <<"ie_def", k, IsTopLevelNonArgument(is_[k])>> : k \in DOMAIN is_ }
        \cup { <<"IsAligned", k, IsTopLevelNonArgument(is_[k])>>
                 : k \in { j \in DOMAIN is_ : passed_103 } }
        \cup { <<"IsAligned", k, IsTopLevelNonArgument(is_[k])>>
                 : k \in { j \in DOMAIN is_ : past_115 /\ reaches(j, 1) } }
        \cup { <<"MustAlterDeclarationsToTransform", k,
                 HasSemanticData(is_[k])>>
                 : k \in { j \in DOMAIN is_ : past_115 /\ reaches(j, 5) } }
        \cup { <<"CanBeTurnedIntoFunction", k, HasSemanticData(is_[k])>>
                 : k \in { j \in DOMAIN is_ :
                             /\ past_115
                             /\ reaches(j, 6)
                             /\ ~(is_[j].HasStringification
                                    \/ is_[j].HasTokenPasting)
                             /\ HasSemanticData(is_[j])
                             /\ IsFunctionLike(is_[j]) } }
        \cup { <<"CanBeTurnedIntoEnum", k, HasSemanticData(is_[k])>>
                 : k \in { j \in DOMAIN is_ : at_134 } }

\* The assert statements that translate_object_like_macro evaluates: the
\* generator of lines 107-110 evaluates CanBeTurnedIntoEnum (macros.py line
\* 128) of the invocations where an ICE is required, up to the first that
\* cannot be turned into an enum.
translate_object_like_macro_asserts(self, invocations) ==
    LET required == { k \in DOMAIN invocations :
                        invocations[k].IsInvokedWhereICERequired }
        stops == { k \in required :
                     ~CanBeTurnedIntoEnumWithIntSize(
                          invocations[k], self.translation_config.int_size) }
    IN  { <<"CanBeTurnedIntoEnum", k, HasSemanticData(invocations[k])>>
            : k \in { j \in required : \A s \in stops : j <= s } }

----------------------------------------------------------------------------
(* State *)

VARIABLES
    pc,                  \* the position of the pipeline
    m,                   \* the macro under classification
    pd,                  \* the PreprocessorData value of the current stage
    translation_config,  \* TranslationConfig
    is_,                 \* the order in which ie_def visited pd.mm[m]
    ie_result,           \* the pair returned by ie_def
    entries,             \* the analyzer record stream (the JSON array)
    filtered_entries,    \* the local variable of ingestion
    entry_index,         \* the position of the loop over filtered_entries
    macroDefinitionLocationToMacroObject,
    record,              \* what the last call on the MacroTranslator returned
    translation_stats,   \* MacroTranslator.translation_stats
    args,                \* emit_translations.py: the parsed command line
    input_src_dir,       \* src_dir of translate_src_files
    target_src_dir,
    out_dir,
    translations,        \* the items of the dict, in its order
    translation_index,   \* the position of the loop over translations
    files,               \* the lines of each file that open can read
    src_file_contents,
    written,             \* the files written, by path
    split_compile_commands,
    outcomes,            \* what the analyzer does on each compile command
    futures,             \* the state of each submitted call
    results_set,
    processed,
    analysis_out,        \* the JSON array written to analysis_out_path
    cache_files          \* the files of the cache directory, by path

classification_vars == <<m, translation_config, is_, ie_result>>

ingestion_vars ==
    <<entries, filtered_entries, entry_index,
      macroDefinitionLocationToMacroObject>>

translator_vars == <<record, translation_stats>>

emit_vars ==
    <<args, input_src_dir, target_src_dir, out_dir, translations,
      translation_index, files, src_file_contents, written>>

maki_vars ==
    <<split_compile_commands, outcomes, futures, results_set, processed,
      analysis_out, cache_files>>

vars ==
    <<pc, pd, classification_vars, ingestion_vars, translator_vars,
      emit_vars, maki_vars>>

\* emit_translations.py has not been started
EmitNotStarted ==
    /\ args = PyNone
    /\ input_src_dir = <<>>
    /\ target_src_dir = <<>>
    /\ out_dir = <<>>
    /\ translations = <<>>
    /\ translation_index = 0
    /\ files = <<>>
    /\ src_file_contents = <<>>
    /\ written = <<>>

\* run_maki_on_compile_commands.py has not been started
MakiNotStarted ==
    /\ split_compile_commands = <<>>
    /\ outcomes = <<>>
    /\ futures = <<>>
    /\ results_set = {}
    /\ processed = 0
    /\ analysis_out = PyNone
    /\ cache_files = <<>>

----------------------------------------------------------------------------
(* Classification of one macro of the source preprocessor data *)

Init ==
    /\ pc = "src_pd"
    /\ \E IsObjectLike \in BOOLEAN, IsDefinedAtGlobalScope \in BOOLEAN :
         /\ m = Macro("FOO", IsObjectLike, TRUE, IsDefinedAtGlobalScope,
                      "100", DefLocA, <<"a.h", "1", "20">>)
         /\ \E invocations \in InvocationSets(IsObjectLike),
               inspected_macro_names \in { {}, {"FOO"} },
               local_includes \in { {}, {"a.h"} } :
              pd = PreprocessorData(m :> invocations, inspected_macro_names,
                                    local_includes)
    /\ translation_config \in
         \* int_size is read for object-like macros only; a function-like
         \* macro is classified under the default configuration
         IF m.IsObjectLike THEN [ int_size : IntSize ]
         ELSE { [ int_size |-> Int32 ] }
    /\ is_ = <<>>
    /\ ie_result = <<None, None>>
    /\ entries = <<>>
    /\ filtered_entries = <<>>
    /\ entry_index = 0
    /\ macroDefinitionLocationToMacroObject = <<>>
    /\ record = PyNone
    /\ translation_stats = TranslationRecords
    /\ EmitNotStarted
    /\ MakiNotStarted

\* Mutant of NarrowToTopLevelNonArgument: one top-level non-argument
\* invocation is enough to keep a macro.
NarrowToTopLevelNonArgument_any ==
    /\ pc = "src_pd"
    /\ pd' = PreprocessorData(
                [ k \in { k \in DOMAIN pd.mm :
                            \E i \in pd.mm[k] : IsTopLevelNonArgument(i) }
                    |-> pd.mm[k] ],
                pd.inspected_macro_names,
                pd.local_includes)
    /\ pc' = "tlna_src_pd"
    /\ UNCHANGED <<classification_vars, ingestion_vars, translator_vars,
                   emit_vars, maki_vars>>

\* analyze_transformations.py, lines 166-171: keep the macros all of whose
\* invocations are top-level non-argument invocations.
NarrowToTopLevelNonArgument ==
    /\ pc = "src_pd"
    /\ pd' = PreprocessorData(
                [ k \in { k \in DOMAIN pd.mm :
                            \A i \in pd.mm[k] : IsTopLevelNonArgument(i) }
                    |-> pd.mm[k] ],
                pd.inspected_macro_names,
                pd.local_includes)
    /\ pc' = "tlna_src_pd"
    /\ UNCHANGED <<classification_vars, ingestion_vars, translator_vars,
                   emit_vars, maki_vars>>

\* One call ie_def(m, pd, translation_config) on a macro of the narrowed
\* data; the loops of the call visit pd.mm[m] in the order is_.
Classify ==
    /\ pc = "tlna_src_pd"
    /\ m \in DOMAIN pd.mm
    /\ \E order \in IterationOrders(pd.mm[m]) :
         /\ is_' = order
         /\ ie_result' = ie_def(m, pd, translation_config, order)
    /\ pc' = "classified"
    /\ UNCHANGED <<m, pd, translation_config, ingestion_vars, translator_vars,
                   emit_vars, maki_vars>>

Next ==
    \/ NarrowToTopLevelNonArgument
    \/ Classify

Spec == Init /\ [][Next]_vars

----------------------------------------------------------------------------
(* Calls on a MacroTranslator for one macro of the narrowed data *)

\* the MacroTranslator object
Self ==
    [ translation_config |-> translation_config,
      translation_stats |-> translation_stats ]

\* One call get_macro_record(m, pd.mm[m], pd).
GetMacroRecord ==
    /\ pc = "tlna_src_pd"
    /\ m \in DOMAIN pd.mm
    /\ record' = get_macro_record(Self, m, pd.mm[m], pd)
    /\ pc' = "get_macro_record"
    /\ UNCHANGED <<pd, classification_vars, ingestion_vars,
                   translation_stats,
                   emit_vars, maki_vars>>

\* One call should_skip_due_to_technical_limitations(m, pd.mm[m]) as line 45
\* makes it: on a macro that ie_def accepts.  The iterator of the set yields
\* the invocations in the order is_.
ShouldSkipDueToTechnicalLimitations ==
    /\ pc = "tlna_src_pd"
    /\ m \in DOMAIN pd.mm
    /\ \E order \in IterationOrders(pd.mm[m]) :
         /\ ie_def(m, pd, translation_config, order)[1] = VALID
         /\ is_' = order
         /\ record' = should_skip_due_to_technical_limitations(m, order)
    /\ pc' = "should_skip_due_to_technical_limitations"
    /\ UNCHANGED <<m, pd, translation_config, ie_result, ingestion_vars,
                   translation_stats,
                   emit_vars, maki_vars>>

\* One call translate_function_like_macro(m, pd.mm[m]) as line 51 makes it:
\* on a function-like macro that ie_def accepts and that is not skipped.
TranslateFunctionLikeMacro ==
    /\ pc = "tlna_src_pd"
    /\ m \in DOMAIN pd.mm
    /\ IsFunctionLike(m)
    /\ \E order \in IterationOrders(pd.mm[m]) :
         /\ ie_def(m, pd, translation_config, order)[1] = VALID
         /\ should_skip_due_to_technical_limitations(m, order) = PyNone
         /\ is_' = order
         /\ record' = translate_function_like_macro(m, order)
    /\ pc' = "translate_function_like_macro"
    /\ UNCHANGED <<m, pd, translation_config, ie_result, ingestion_vars,
                   translation_stats,
                   emit_vars, maki_vars>>

\* One call translate_object_like_macro(m, pd.mm[m]) as line 53 makes it.
TranslateObjectLikeMacro ==
    /\ pc = "tlna_src_pd"
    /\ m \in DOMAIN pd.mm
    /\ ~IsFunctionLike(m)
    /\ \E order \in IterationOrders(pd.mm[m]) :
         /\ ie_def(m, pd, translation_config, order)[1] = VALID
         /\ should_skip_due_to_technical_limitations(m, order) = PyNone
         /\ is_' = order
         /\ record' = translate_object_like_macro(Self, m, order)
    /\ pc' = "translate_object_like_macro"
    /\ UNCHANGED <<m, pd, translation_config, ie_result, ingestion_vars,
                   translation_stats,
                   emit_vars, maki_vars>>

\* One call generate_macro_translations(pd).  No record is added before the
\* call ends, so translation_stats is as it was.
GenerateMacroTranslations ==
    /\ pc = "tlna_src_pd"
    /\ record' = generate_macro_translations(Self, pd)
    /\ pc' = "generate_macro_translations"
    /\ UNCHANGED <<pd, classification_vars, ingestion_vars,
                   translation_stats,
                   emit_vars, maki_vars>>

\* The call generate_macro_translations(pd) that follows the first one on
\* the same translator, with the same preprocessor data or with one that
\* has no macros.
GenerateMacroTranslationsAgain ==
    /\ pc = "generate_macro_translations"
    /\ pd' \in { pd, PreprocessorData(<<>>, pd.inspected_macro_names,
                                      pd.local_includes) }
    /\ record' = generate_macro_translations(Self, pd')
    /\ pc' = "generate_macro_translations_again"
    /\ UNCHANGED <<classification_vars, ingestion_vars,
                   translation_stats, emit_vars, maki_vars>>

NextTranslate ==
    \/ NarrowToTopLevelNonArgument
    \/ GetMacroRecord
    \/ ShouldSkipDueToTechnicalLimitations
    \/ TranslateFunctionLikeMacro
    \/ TranslateObjectLikeMacro
    \/ GenerateMacroTranslations
    \/ GenerateMacroTranslationsAgain

SpecTranslate == Init /\ [][NextTranslate]_vars

----------------------------------------------------------------------------
(* Ingestion of an analyzer record stream *)

DefLocC == <<"c.h", "3", "9">>
\* the definition location of a macro without a file entry
InvalidLoc == <<"<invalid loc>">>

FooAtA == Macro("FOO", TRUE, TRUE, TRUE, "100", DefLocA, <<"a.h", "1", "20">>)
FooAtB == Macro("FOO", TRUE, TRUE, TRUE, "200", DefLocB, <<"b.c", "7", "20">>)
BarAtC ==
    Macro("BAR", FALSE, TRUE, TRUE, "((x)*(x))", DefLocC, <<"c.h", "3", "30">>)
BarBuiltin == Macro("BAR", TRUE, FALSE, TRUE, "1", InvalidLoc, InvalidLoc)

InvocationOfBar == [BaseNonVoid EXCEPT !.Name = "BAR",
                                       !.DefinitionLocation = DefLocC,
                                       !.TypeSignature = "int BAR(int x)"]

EntryPool ==
    { Entry("Definition", FooAtA),
      Entry("Definition", FooAtB),
      Entry("Definition", BarAtC),
      Entry("Definition", BarBuiltin),
      \* FOO of a.h invoked at main.c:1:1, reported twice with different
      \* facts, and at main.c:2:1 inside another expansion
      Entry("Invocation", BaseVariable),
      Entry("Invocation", [BaseVariable EXCEPT !.ASTKind = "Stmt"]),
      \* the same location reported from inside a macro argument
      Entry("Invocation",
            [BaseVariable EXCEPT !.IsInvokedInMacroArgument = TRUE]),
      Entry("Invocation",
            [BaseVariable EXCEPT !.InvocationLocation = InvocationLocations[2],
                                 !.InvocationDepth = 1]),
      \* FOO of b.c
      Entry("Invocation", [BaseEnum EXCEPT !.DefinitionLocation = DefLocB]),
      Entry("Invocation", InvocationOfBar),
      Entry("Invocation",
            [InvocationOfBar EXCEPT !.IsDefinitionLocationValid = FALSE,
                                    !.DefinitionLocation = InvalidLoc]),
      \* an invocation of a name that no record defines
      Entry("Invocation", [BaseVariable EXCEPT !.Name = "BAZ"]),
      [Kind |-> "InspectedByCPP", Name |-> "FOO"],
      [Kind |-> "Include", IncludeName |-> "a.h", IsValid |-> TRUE],
      [Kind |-> "Include", IncludeName |-> "x.h", IsValid |-> FALSE] }

InitIngest ==
    /\ pc = "start"
    /\ entries \in UNION { [1..n -> EntryPool] : n \in 0..MaxRecords }
    /\ filtered_entries = <<>>
    /\ entry_index = 0
    /\ macroDefinitionLocationToMacroObject = <<>>
    /\ pd = PreprocessorData(<<>>, {}, {})
    /\ m = None
    /\ translation_config = [int_size |-> Int32]
    /\ is_ = <<>>
    /\ ie_result = <<None, None>>
    /\ record = PyNone
    /\ translation_stats = TranslationRecords
    /\ EmitNotStarted
    /\ MakiNotStarted

\* line 118
FilterDefinitions ==
    /\ pc = "start"
    /\ filtered_entries' = filter_definitions(entries)
    /\ pc' = "filtered"
    /\ UNCHANGED <<pd, classification_vars, entries, entry_index,
                   macroDefinitionLocationToMacroObject, translator_vars,
                   emit_vars, maki_vars>>

\* lines 121-131
SortEntries ==
    /\ pc = "filtered"
    /\ filtered_entries' = SortDefinitionsFirst(filtered_entries)
    /\ entry_index' = 1
    /\ pc' = "loop"
    /\ UNCHANGED <<pd, classification_vars, entries,
                   macroDefinitionLocationToMacroObject, translator_vars,
                   emit_vars, maki_vars>>

\* the entry of the current iteration of the loop of line 133
AtEntry(Kind) ==
    /\ pc = "loop"
    /\ entry_index <= Len(filtered_entries)
    /\ filtered_entries[entry_index].Kind = Kind

NextEntry ==
    /\ entry_index' = entry_index + 1
    /\ UNCHANGED <<pc, classification_vars, entries, filtered_entries,
                   translator_vars,
                   emit_vars, maki_vars>>

\* lines 134-141
ProcessDefinition ==
    /\ AtEntry("Definition")
    /\ LET macro == DelKind(filtered_entries[entry_index])
       IN  /\ pd' = [pd EXCEPT !.mm = IF macro \in DOMAIN pd.mm THEN pd.mm
                                       ELSE (macro :> {}) @@ pd.mm]
           /\ macroDefinitionLocationToMacroObject' =
                IF macro.IsDefinitionLocationValid
                THEN (macro.DefinitionLocation :> macro)
                       @@ macroDefinitionLocationToMacroObject
                ELSE macroDefinitionLocationToMacroObject
    /\ NextEntry

\* lines 142-143
ProcessInspectedByCPP ==
    /\ AtEntry("InspectedByCPP")
    /\ pd' = [pd EXCEPT !.inspected_macro_names =
                  @ \cup {filtered_entries[entry_index].Name}]
    /\ UNCHANGED macroDefinitionLocationToMacroObject
    /\ NextEntry

\* lines 144-146
ProcessInclude ==
    /\ AtEntry("Include")
    /\ pd' = [pd EXCEPT !.local_includes =
                  IF filtered_entries[entry_index].IsValid
                  THEN @ \cup {filtered_entries[entry_index].IncludeName}
                  ELSE @]
    /\ UNCHANGED macroDefinitionLocationToMacroObject
    /\ NextEntry

\* Mutant of ProcessInvocation: every invocation is recorded.
ProcessInvocation_without_dedup ==
    /\ AtEntry("Invocation")
    /\ LET i == DelKind(filtered_entries[entry_index])
       IN  IF /\ i.IsDefinitionLocationValid
              /\ i.DefinitionLocation
                   \notin DOMAIN macroDefinitionLocationToMacroObject
           THEN /\ pc' = "KeyError"
                /\ UNCHANGED <<pd, classification_vars, ingestion_vars,
                               translator_vars, emit_vars, maki_vars>>
           ELSE /\ pd' =
                     IF ~i.IsDefinitionLocationValid THEN pd
                     ELSE LET macro == macroDefinitionLocationToMacroObject[
                                           i.DefinitionLocation]
                          IN  [pd EXCEPT !.mm[macro] = @ \cup {i}]
                /\ UNCHANGED macroDefinitionLocationToMacroObject
                /\ NextEntry

\* lines 147-155; the lookup of an unknown definition location raises
\* KeyError, which ends the run
ProcessInvocation ==
    /\ AtEntry("Invocation")
    /\ LET i == DelKind(filtered_entries[entry_index])
       IN  IF /\ i.IsDefinitionLocationValid
              /\ i.DefinitionLocation
                   \notin DOMAIN macroDefinitionLocationToMacroObject
           THEN /\ pc' = "KeyError"
                /\ UNCHANGED <<pd, classification_vars, ingestion_vars,
                               translator_vars,
                   emit_vars, maki_vars>>
           ELSE /\ pd' =
                     IF ~i.IsDefinitionLocationValid THEN pd
                     ELSE LET macro == macroDefinitionLocationToMacroObject[
                                           i.DefinitionLocation]
                          IN  IF \A j \in pd.mm[macro] :
                                    j.InvocationLocation # i.InvocationLocation
                              THEN [pd EXCEPT !.mm[macro] = @ \cup {i}]
                              ELSE pd
                /\ UNCHANGED macroDefinitionLocationToMacroObject
                /\ NextEntry

\* lines 157-162, after the last entry
NarrowToSource ==
    /\ pc = "loop"
    /\ entry_index > Len(filtered_entries)
    /\ pd' = PreprocessorData(
                [ k \in { k \in DOMAIN pd.mm : defined_in(k, src_dir) }
                    |-> pd.mm[k] ],
                pd.inspected_macro_names,
                pd.local_includes)
    /\ pc' = "src_pd"
    /\ UNCHANGED <<classification_vars, ingestion_vars, translator_vars,
                   emit_vars, maki_vars>>

\* lines 173-182: the comprehension calls ie_def(m, tlna_src_pd) on the first
\* macro of the narrowed data; ie_def takes three arguments, so the call
\* raises TypeError, which ends the run.  Without a macro the empty data is
\* returned.
NarrowToInterfaceEquivalent ==
    /\ pc = "tlna_src_pd"
    /\ entry_index > 0
    /\ pc' = IF DOMAIN pd.mm = {} THEN "ie_pd" ELSE "TypeError"
    /\ UNCHANGED <<pd, classification_vars, ingestion_vars, translator_vars,
                   emit_vars, maki_vars>>

NextIngest ==
    \/ FilterDefinitions
    \/ SortEntries
    \/ ProcessDefinition
    \/ ProcessInspectedByCPP
    \/ ProcessInclude
    \/ ProcessInvocation
    \/ NarrowToSource
    \/ NarrowToTopLevelNonArgument
    \/ NarrowToInterfaceEquivalent

SpecIngest == InitIngest /\ [][NextIngest]_vars

----------------------------------------------------------------------------
(* emit_translations.py: translate_src_files on a source tree              *)

MaxLines == 3

MaxTranslations == 2

\* the files of the tree: two under the input source directory, one of
\* them in a subdirectory, and one in a directory beside it whose name
\* begins with the name of the input source directory
SourceFiles == { <<"in", "a.h">>, <<"in", "sub", "b.c">>, <<"in2", "c.h">> }

\* line number i of a file, as readlines returns it: its text, a comment
\* that the line closes or leaves open, and the newline
Line(path, i, comment) ==
    <<path[Len(path)], ToString(i)>>
        \o (CASE comment = "open" -> <<"/*", "c">>
              [] comment = "closed" -> <<"/*", "c", "*/">>
              [] OTHER -> <<>>)
        \o <<newline>>

\* the items of a translations dict of n macros: the macro of item k is
\* named after k, is defined in lines first..last of a file, and has the
\* translation named after k or None
TranslationItems(k) ==
    { [ macro |-> Macro("M" \o ToString(k), TRUE, TRUE, TRUE, "1",
                        <<path, ToString(first), "9">>,
                        <<path, ToString(last), "20">>),
        translation |-> translation ]
        : path \in SourceFiles,
          first \in 1..MaxLines,
          last \in 1..MaxLines,
          translation \in { PyNone, Str(<<"T" \o ToString(k)>>) } }

\* two macros are not defined on the same line of a file
DisjointDefinitions(items) ==
    \A j, k \in DOMAIN items :
        j < k /\ items[j].macro.DefinitionLocation[1]
                    = items[k].macro.DefinitionLocation[1]
            => \/ int(items[j].macro.EndDefinitionLocation[2])
                     < int(items[k].macro.DefinitionLocation[2])
               \/ int(items[k].macro.EndDefinitionLocation[2])
                     < int(items[j].macro.DefinitionLocation[2])

InitEmit ==
    /\ pc = "emit_translations"
    /\ args \in [ input_src_dir : { Path(<<"in">>) },
                  output_translation_dir : { Path(<<"out">>) },
                  target_src_dir : { PyNone, Path(<<"in">>),
                                     Path(<<"in", "sub">>) } ]
    \* at most one line of a file has a comment
    /\ \E commented \in 0..MaxLines, comment \in { "open", "closed" } :
         files = [ path \in SourceFiles |->
                     [ i \in 1..MaxLines |->
                         Line(path, i, IF i = commented THEN comment
                                                        ELSE "none") ] ]
    /\ \E n \in 0..MaxTranslations :
         /\ translations \in [ 1..n -> UNION { TranslationItems(k) : k \in 1..n } ]
         /\ \A k \in 1..n :
              /\ translations[k] \in TranslationItems(k)
              /\ int(translations[k].macro.DefinitionLocation[2])
                    <= int(translations[k].macro.EndDefinitionLocation[2])
         /\ DisjointDefinitions(translations)
    /\ input_src_dir = <<>>
    /\ target_src_dir = <<>>
    /\ out_dir = <<>>
    /\ translation_index = 0
    /\ src_file_contents = <<>>
    /\ written = <<>>
    /\ m = None
    /\ pd = PreprocessorData(<<>>, {}, {})
    /\ translation_config = [int_size |-> Int32]
    /\ is_ = <<>>
    /\ ie_result = <<None, None>>
    /\ entries = <<>>
    /\ filtered_entries = <<>>
    /\ entry_index = 0
    /\ macroDefinitionLocationToMacroObject = <<>>
    /\ record = PyNone
    /\ translation_stats = TranslationRecords
    /\ MakiNotStarted

\* line 115
main_target_src_dir ==
    IF args.output_translation_dir # PyNone
    THEN args.output_translation_dir.parts
    ELSE args.input_src_dir.parts

\* lines 112-115 and 126: main calls translate_src_files on a translations
\* dict
Main ==
    /\ pc = "emit_translations"
    /\ input_src_dir' = args.input_src_dir.parts
    /\ target_src_dir' = main_target_src_dir
    /\ out_dir' = args.output_translation_dir.parts
    /\ src_file_contents' = <<>>
    /\ translation_index' = 1
    /\ pc' = "main"
    /\ UNCHANGED <<pd, classification_vars, ingestion_vars, translator_vars,
                   args, translations, files, written, maki_vars>>

\* lines 16-21: a call of translate_src_files whose target_src_dir is the
\* directory that the option names, the input source directory when there
\* is none, or the path of a source file
TranslateSrcFiles ==
    /\ pc = "emit_translations"
    /\ input_src_dir' = args.input_src_dir.parts
    /\ target_src_dir' \in
         { IF args.target_src_dir # PyNone THEN args.target_src_dir.parts
                                           ELSE args.input_src_dir.parts }
            \cup SourceFiles
    /\ out_dir' = args.output_translation_dir.parts
    /\ src_file_contents' = <<>>
    /\ translation_index' = 1
    /\ pc' = "translate_src_files"
    /\ UNCHANGED <<pd, classification_vars, ingestion_vars, translator_vars,
                   args, translations, files, written, maki_vars>>

\* the call of translate_src_files is in its first loop
InTranslateSrcFiles == pc \in { "main", "translate_src_files" }

\* lines 22-76: one iteration of the loop over translations.items(); gives
\* the src_file_contents after it
translate_src_files_iteration(item) ==
    LET macro == item.macro
        src_file_path == macro.DefinitionLocation[1]
        first == int(macro.DefinitionLocation[2])
        last == int(macro.EndDefinitionLocation[2])
        src_file_content ==
            IF src_file_path \in DOMAIN src_file_contents
            THEN src_file_contents[src_file_path]
            ELSE files[src_file_path]
    IN  IF item.translation = PyNone
        THEN src_file_contents
        ELSE IF ~PathStrStartsWith(src_file_path, input_src_dir)
        THEN src_file_contents
        ELSE IF ~is_relative_to(target_src_dir, src_file_path)
        THEN src_file_contents
        ELSE (src_file_path :>
                 overlay_definition(src_file_content, first, last,
                                    item.translation.pieces))
             @@ src_file_contents

\* line 79
dst_file_path(src_file_path) ==
    out_dir \o relpath(src_file_path, input_src_dir)

\* lines 78-82: the files written, by destination path
written_files ==
    [ dst \in { dst_file_path(p) : p \in DOMAIN src_file_contents } |->
        LET src_file_path ==
                CHOOSE p \in DOMAIN src_file_contents : dst_file_path(p) = dst
        IN  Concat(src_file_contents[src_file_path]) ]

\* lines 22-76
TranslateSrcFilesIteration ==
    /\ InTranslateSrcFiles
    /\ translation_index <= Len(translations)
    /\ src_file_contents' =
         translate_src_files_iteration(translations[translation_index])
    /\ translation_index' = translation_index + 1
    /\ UNCHANGED <<pc, pd, classification_vars, ingestion_vars,
                   translator_vars, args, input_src_dir, target_src_dir,
                   out_dir, translations, files, written, maki_vars>>

\* lines 78-82, after the last item
WriteSrcFiles ==
    /\ InTranslateSrcFiles
    /\ translation_index > Len(translations)
    /\ written' = written_files
    /\ pc' = IF pc = "main" THEN "main_written" ELSE "written"
    /\ UNCHANGED <<pd, classification_vars, ingestion_vars, translator_vars,
                   args, input_src_dir, target_src_dir, out_dir, translations,
                   translation_index, files, src_file_contents, maki_vars>>

NextEmit ==
    \/ Main
    \/ TranslateSrcFiles
    \/ TranslateSrcFilesIteration
    \/ WriteSrcFiles

SpecEmit == InitEmit /\ [][NextEmit]_vars

----------------------------------------------------------------------------
(* run_maki_on_compile_commands.py: main on a list of compile commands     *)

MaxCompileCommands == 3

MaxResultLen == 2

\* records as the analyzer prints them: the keys of a kind in one order
AnalyzerRecords ==
    { dict(<< <<"Kind", "Definition">>, <<"Name", "FOO">> >>),
      dict(<< <<"Kind", "Invocation">>, <<"Name", "FOO">> >>),
      dict(<< <<"Kind", "Include">>, <<"IncludeName", "a.h">> >>) }

\* what the analyzer can do on a compile command: fail, or print an array
\* of records, which may be empty and may repeat a record
Processes ==
    { CompletedProcess(1, <<>>) }
        \cup { CompletedProcess(0, stdout) :
                 stdout \in UNION { [1..n -> AnalyzerRecords]
                                      : n \in 0..MaxResultLen } }

InitMaki ==
    /\ pc = "run_maki_on_compile_commands"
    /\ \E n \in 1..MaxCompileCommands :
         /\ split_compile_commands = [ k \in 1..n |-> ToString(k) \o ".c" ]
         /\ outcomes \in [ 1..n -> Processes ]
    /\ futures = <<>>
    /\ results_set = {}
    /\ processed = 0
    /\ analysis_out = PyNone
    /\ cache_files = <<>>
    /\ m = None
    /\ pd = PreprocessorData(<<>>, {}, {})
    /\ translation_config = [int_size |-> Int32]
    /\ is_ = <<>>
    /\ ie_result = <<None, None>>
    /\ entries = <<>>
    /\ filtered_entries = <<>>
    /\ entry_index = 0
    /\ macroDefinitionLocationToMacroObject = <<>>
    /\ record = PyNone
    /\ translation_stats = TranslationRecords
    /\ EmitNotStarted

\* lines 191-197: every compile command is submitted to the pool
Submit ==
    /\ pc = "run_maki_on_compile_commands"
    /\ futures' = [ k \in DOMAIN split_compile_commands |->
                      [state |-> "RUNNING", result |-> PyNone] ]
    /\ results_set' = {}
    /\ processed' = 0
    /\ pc' = "as_completed"
    /\ UNCHANGED <<pd, classification_vars, ingestion_vars, translator_vars,
                   emit_vars, split_compile_commands, outcomes, analysis_out,
                   cache_files>>

\* a worker process ends the call run_maki_on_compile_command of one future
RunMakiOnCompileCommand ==
    /\ pc = "as_completed"
    /\ \E k \in DOMAIN futures :
         /\ futures[k].state = "RUNNING"
         /\ futures' = [futures EXCEPT ![k] =
                          [state |-> "FINISHED",
                           result |-> run_maki_on_compile_command(outcomes[k])]]
    /\ UNCHANGED <<pc, pd, classification_vars, ingestion_vars,
                   translator_vars, emit_vars, split_compile_commands,
                   outcomes, results_set, processed, analysis_out,
                   cache_files>>

\* Mutant of add_result: the result replaces what was merged before.
add_result_replacing(result) ==
    IF result # <<>> THEN obj_tuples(result)
    ELSE results_set

\* lines 201-206: results_set after the iteration on a result
add_result(result) ==
    IF result # <<>> THEN results_set \cup obj_tuples(result)
    ELSE results_set

\* lines 199-208: as_completed yields a finished future that it has not
\* yielded yet
AsCompleted ==
    /\ pc = "as_completed"
    /\ \E k \in DOMAIN futures :
         /\ futures[k].state = "FINISHED"
         /\ futures' = [futures EXCEPT ![k].state = "YIELDED"]
         /\ results_set' = add_result(futures[k].result)
         /\ processed' = IF futures[k].result # <<>> THEN processed + 1
                                                     ELSE processed
    /\ UNCHANGED <<pc, pd, classification_vars, ingestion_vars,
                   translator_vars, emit_vars, split_compile_commands,
                   outcomes, analysis_out, cache_files>>

\* lines 210-214, after the last future: the list comprehension visits
\* results_set in the order of the set
WriteAnalysis ==
    /\ pc = "as_completed"
    /\ \A k \in DOMAIN futures : futures[k].state = "YIELDED"
    /\ \E order \in IterationOrders(results_set) :
         analysis_out' = [ k \in DOMAIN order |-> dict(order[k]) ]
    /\ pc' = "analysis_written"
    /\ UNCHANGED <<pd, classification_vars, ingestion_vars, translator_vars,
                   emit_vars, split_compile_commands, outcomes, futures,
                   results_set, processed, cache_files>>

NextMaki ==
    \/ Submit
    \/ RunMakiOnCompileCommand
    \/ AsCompleted
    \/ WriteAnalysis

SpecMaki == InitMaki /\ [][NextMaki]_vars

----------------------------------------------------------------------------
(* run_maki_on_compile_commands.py: the workers with a cache directory     *)

MaxCommands == 2

\* the entries of compile_commands.json: one command of two source files,
\* one command for each of the files, and one with another option
CompileCommandPool ==
    { CompileCommand("/src", <<"cc", "-c", "a.c", "b.c">>, "a.c"),
      CompileCommand("/src", <<"cc", "-c", "a.c">>, "a.c"),
      CompileCommand("/src", <<"cc", "-c", "b.c">>, "b.c"),
      CompileCommand("/src", <<"cc", "-DX", "-c", "b.c">>, "b.c") }

RECURSIVE Flatten(_)
\* lines 186-187: the concatenation of the lists of a list
Flatten(lists) ==
    IF lists = <<>> THEN <<>> ELSE Head(lists) \o Flatten(Tail(lists))

\* what the analyzer prints for a translation unit: the records of its file
AnalysisOf(cc) ==
    << dict(<< <<"Kind", "Definition">>, <<"Name", "FOO">>,
               <<"DefinitionLocation", cc.file>> >>) >>

InitCache ==
    /\ pc = "run_maki_with_cache"
    /\ \E n \in 1..MaxCommands :
         \E compile_commands \in [ 1..n -> CompileCommandPool ] :
            split_compile_commands =
                Flatten([ k \in 1..n |->
                    split_compile_commands_by_src_file(compile_commands[k]) ])
    /\ outcomes = <<>>
    /\ futures = <<>>
    /\ results_set = {}
    /\ processed = 0
    /\ analysis_out = PyNone
    /\ cache_files = <<>>
    /\ m = None
    /\ pd = PreprocessorData(<<>>, {}, {})
    /\ translation_config = [int_size |-> Int32]
    /\ is_ = <<>>
    /\ ie_result = <<None, None>>
    /\ entries = <<>>
    /\ filtered_entries = <<>>
    /\ entry_index = 0
    /\ macroDefinitionLocationToMacroObject = <<>>
    /\ record = PyNone
    /\ translation_stats = TranslationRecords
    /\ EmitNotStarted

\* lines 190-197, with --cache-dir: every compile command is submitted
SubmitWithCache ==
    /\ pc = "run_maki_with_cache"
    /\ futures' = [ k \in DOMAIN split_compile_commands |->
                      [state |-> "PENDING", result |-> PyNone,
                       cached |-> FALSE] ]
    /\ pc' = "workers"
    /\ UNCHANGED <<pd, classification_vars, ingestion_vars, translator_vars,
                   emit_vars, split_compile_commands, outcomes, results_set,
                   processed, analysis_out, cache_files>>

\* lines 83-85: a worker looks for the cached result of its compile command
\* and returns it if the file is there
GetCachedResult ==
    /\ pc = "workers"
    /\ \E k \in DOMAIN futures :
         /\ futures[k].state = "PENDING"
         /\ LET cache_path == get_cache_path(split_compile_commands[k])
            IN  futures' = [futures EXCEPT ![k] =
                    IF cache_path \in DOMAIN cache_files
                    THEN [state |-> "FINISHED",
                          result |-> cache_files[cache_path],
                          cached |-> TRUE]
                    ELSE [@ EXCEPT !.state = "RUNNING"]]
    /\ UNCHANGED <<pc, pd, classification_vars, ingestion_vars,
                   translator_vars, emit_vars, split_compile_commands,
                   outcomes, results_set, processed, analysis_out,
                   cache_files>>

\* lines 88-117: the worker runs the analyzer on cc.file and reads its output
RunAnalyzer ==
    /\ pc = "workers"
    /\ \E k \in DOMAIN futures :
         /\ futures[k].state = "RUNNING"
         /\ futures' = [futures EXCEPT ![k] =
                [state |-> "ANALYZED",
                 result |-> AnalysisOf(split_compile_commands[k]),
                 cached |-> FALSE]]
    /\ UNCHANGED <<pc, pd, classification_vars, ingestion_vars,
                   translator_vars, emit_vars, split_compile_commands,
                   outcomes, results_set, processed, analysis_out,
                   cache_files>>

\* lines 118-121: the worker writes the result to the cache and returns it
CacheResult ==
    /\ pc = "workers"
    /\ \E k \in DOMAIN futures :
         /\ futures[k].state = "ANALYZED"
         /\ cache_files' =
              (get_cache_path(split_compile_commands[k]) :> futures[k].result)
                 @@ cache_files
         /\ futures' = [futures EXCEPT ![k].state = "FINISHED"]
    /\ UNCHANGED <<pc, pd, classification_vars, ingestion_vars,
                   translator_vars, emit_vars, split_compile_commands,
                   outcomes, results_set, processed, analysis_out>>

NextCache ==
    \/ SubmitWithCache
    \/ GetCachedResult
    \/ RunAnalyzer
    \/ CacheResult

SpecCache == InitCache /\ [][NextCache]_vars

----------------------------------------------------------------------------
(* Vocabulary of the properties of the classification *)

TranslationTargets ==
    { "GLOBAL_VARIABLE", "ENUM", "NON_VOID_FUNCTION", "VOID_FUNCTION" }

\* the invocation set of the classified macro
I == IF m \in DOMAIN pd.mm THEN pd.mm[m] ELSE {}

Satisfies(i, conditions) ==
    \A c \in DOMAIN conditions : ConditionCheck(conditions[c].check, i, pd)

TargetConditions(target) ==
    CASE target = "GLOBAL_VARIABLE" -> VARIABLE_CONDITIONS
      [] target = "ENUM" -> ENUM_CONDITIONS
      [] target = "NON_VOID_FUNCTION" -> NON_VOID_CONDITIONS
      [] target = "VOID_FUNCTION" -> VOID_CONDITIONS

OneTypeSignature == Cardinality({ i.TypeSignature : i \in I }) = 1

\* the four structural preconditions hold
PassesStructural ==
    /\ \A i \in I : HasSemanticData(i)
    /\ I # {}
    /\ OneTypeSignature
    /\ m.IsDefinedAtGlobalScope

\* every invocation satisfies every global condition
PassesGlobal == \A i \in I : Satisfies(i, GLOBAL_CONDITIONS)

\* the reason of the lowest-indexed condition of the list that some
\* invocation of the set fails
LowestFailedReason(conditions) ==
    conditions[Minimum(UNION { FailedConditions(i, pd, conditions)
                               : i \in I })].result

\* the condition lists that the call of ie_def recorded in the state passed
\* to check_conditions
ConsultedConditionLists ==
    IF structural_preconditions(m, is_) # VALID THEN {}
    ELSE { GLOBAL_CONDITIONS } \cup
         IF ~PassesGlobal THEN {}
         ELSE IF m.IsObjectLike
         THEN { VARIABLE_CONDITIONS, ENUM_CONDITIONS }
         ELSE { ARGUMENT_CONDITIONS } \cup
              IF \E i \in I : ~Satisfies(i, ARGUMENT_CONDITIONS) THEN {}
              ELSE { NON_VOID_CONDITIONS, VOID_CONDITIONS }

Representable(i, int_size) ==
    IF int_size = Int32 THEN i.IsICERepresentableByInt32
    ELSE i.IsICERepresentableByInt16

GlobalVariableEligible ==
    \A i \in I : /\ ~i.IsInvokedWhereConstantExpressionRequired
                 /\ i.ASTKind = "Expr"
                 /\ ~i.DoesBodyContainDeclRefExpr

----------------------------------------------------------------------------
(* Properties of the classification *)

\* C1 (soundness of translation): whenever ie_def returns VALID with a
\* target, the macro is defined at global scope, has at least one
\* invocation, all invocations share one type signature, and every
\* invocation has semantic data, satisfies every global condition, every
\* condition of the list of the chosen target and, for a function-like
\* macro, every argument condition.
C1_Soundness ==
    (pc = "classified" /\ ie_result[1] = VALID) =>
        /\ ie_result[2] \in TranslationTargets
        /\ m.IsDefinedAtGlobalScope
        /\ I # {}
        /\ OneTypeSignature
        /\ \A i \in I :
             /\ HasSemanticData(i)
             /\ Satisfies(i, GLOBAL_CONDITIONS)
             /\ Satisfies(i, TargetConditions(ie_result[2]))
             /\ IsFunctionLike(m) => Satisfies(i, ARGUMENT_CONDITIONS)

\* a macro with two invocations is accepted
C1_Witness ==
    /\ pc = "classified"
    /\ ie_result[1] = VALID
    /\ Cardinality(I) = 2

\* C2 (determinism under iteration order): the pair returned by ie_def is
\* the same for every order in which the invocation set is visited.
C2_OrderIndependent ==
    pc = "classified" =>
        \A order \in IterationOrders(I) :
            ie_def(m, pd, translation_config, order) = ie_result

\* C3 (first failure wins in cascade order): whenever check_conditions
\* rejects over a condition list, its reason is the reason of the
\* lowest-indexed condition of the list that some invocation fails.
C3_FirstFailureWins ==
    pc = "classified" =>
        \A conditions \in ConsultedConditionLists :
            check_conditions(is_, pd, conditions) # VALID =>
                check_conditions(is_, pd, conditions)
                    = LowestFailedReason(conditions)

\* C4 (structural preconditions): the four structural preconditions are
\* evaluated in the order semantic data, at least one invocation, one type
\* signature, global scope; the first failing one is the reason returned,
\* whatever the global and target conditions say, and an empty invocation
\* set is always rejected with MACRO_NEVER_EXPANDED.
C4_StructuralOrder ==
    pc = "classified" =>
        /\ (\E i \in I : ~HasSemanticData(i)) =>
              ie_result = <<"SYNTACTICALLY_INVALID_PROPERTY", None>>
        /\ I = {} => ie_result = <<"MACRO_NEVER_EXPANDED", None>>
        /\ (/\ \A i \in I : HasSemanticData(i)
            /\ I # {}
            /\ ~OneTypeSignature) =>
              ie_result = <<"POLYMORPHIC", None>>
        /\ (/\ \A i \in I : HasSemanticData(i)
            /\ I # {}
            /\ OneTypeSignature
            /\ ~m.IsDefinedAtGlobalScope) =>
              ie_result = <<"NON_GLOBAL_SCOPE", None>>
        /\ PassesStructural =>
              ie_result[1] \notin { "MACRO_NEVER_EXPANDED", "POLYMORPHIC",
                                    "NON_GLOBAL_SCOPE" }

\* a polymorphic macro that is also not at global scope and fails a global
\* condition is rejected as polymorphic
C4_Witness ==
    /\ pc = "classified"
    /\ ~OneTypeSignature
    /\ ~m.IsDefinedAtGlobalScope
    /\ ~PassesGlobal
    /\ ie_result = <<"POLYMORPHIC", None>>

\* C7 (object-like cascade, GlobalVariable first): an object-like macro that
\* passes the structural preconditions and the global conditions is
\* translated to a global variable exactly when every invocation is not
\* invoked where a constant expression is required and has ASTKind Expr
\* with no DeclRefExpr in its body, also when the Enum conditions hold.
C7_GlobalVariableFirst ==
    (/\ pc = "classified"
     /\ m.IsObjectLike
     /\ PassesStructural
     /\ PassesGlobal) =>
        (ie_result = <<VALID, "GLOBAL_VARIABLE">> <=> GlobalVariableEligible)

\* a macro that qualifies for GlobalVariable and for Enum becomes a global
\* variable
C7_Witness ==
    /\ pc = "classified"
    /\ m.IsObjectLike
    /\ PassesStructural
    /\ PassesGlobal
    /\ GlobalVariableEligible
    /\ Cardinality(I) = 2
    /\ \A i \in I : CanBeTurnedIntoEnumWithIntSize(i, translation_config.int_size)
    /\ ie_result = <<VALID, "GLOBAL_VARIABLE">>

\* C8 (Enum width check restricted to ICE-required call sites): for an
\* object-like macro that passes the structural and global conditions, is
\* not eligible for GlobalVariable and whose every invocation has
\* IsExpansionICE, the outcome is Translate(Enum) exactly when every
\* invocation that is invoked where an ICE is required is representable in
\* the configured int width.
C8_WidthCheckedWhereICERequired ==
    (/\ pc = "classified"
     /\ m.IsObjectLike
     /\ PassesStructural
     /\ PassesGlobal
     /\ ~GlobalVariableEligible
     /\ \A i \in I : i.IsExpansionICE) =>
        (ie_result = <<VALID, "ENUM">> <=>
            \A i \in I : i.IsInvokedWhereICERequired =>
                            Representable(i, translation_config.int_size))

\* the case of C9: an object-like macro that passes the structural and
\* global conditions, with exactly one invocation, where an ICE and a
\* constant expression are required, whose expansion is an ICE
C9_Case ==
    /\ pc = "classified"
    /\ m.IsObjectLike
    /\ PassesStructural
    /\ PassesGlobal
    /\ Cardinality(I) = 1
    /\ \A i \in I : /\ i.IsInvokedWhereICERequired
                    /\ i.IsInvokedWhereConstantExpressionRequired
                    /\ i.IsExpansionICE

\* C9 as claimed (int-size boundary): in the case of C9, a value
\* representable by int16 but not by int32 is translated to an enum under
\* both int sizes, and a value representable by neither is rejected with
\* INVOKED_WHERE_ICE_REQUIRED_AND_GREATER_THAN_INT_SIZE under both.
C9_EnumUnderBothSizes ==
    C9_Case =>
        \A i \in I :
            /\ (i.IsICERepresentableByInt16 /\ ~i.IsICERepresentableByInt32)
                  => ie_result = <<VALID, "ENUM">>
            /\ (~i.IsICERepresentableByInt16 /\ ~i.IsICERepresentableByInt32)
                  => ie_result =
                       <<"INVOKED_WHERE_ICE_REQUIRED_AND_GREATER_THAN_INT_SIZE",
                         None>>

\* C9 as amended: in the case of C9, a value representable by int16 but not
\* by int32 is translated to an enum with int_size = 16 and rejected with
\* INVOKED_WHERE_ICE_REQUIRED_AND_GREATER_THAN_INT_SIZE with int_size = 32; a
\* value representable by neither is rejected with that reason under both.
C9_IntSizeBoundary ==
    C9_Case =>
        \A i \in I :
            /\ (i.IsICERepresentableByInt16 /\ ~i.IsICERepresentableByInt32)
                  => ie_result =
                       IF translation_config.int_size = Int16
                       THEN <<VALID, "ENUM">>
                       ELSE <<"INVOKED_WHERE_ICE_REQUIRED_AND_GREATER_THAN_INT_SIZE",
                              None>>
            /\ (~i.IsICERepresentableByInt16 /\ ~i.IsICERepresentableByInt32)
                  => ie_result =
                       <<"INVOKED_WHERE_ICE_REQUIRED_AND_GREATER_THAN_INT_SIZE",
                         None>>

\* the value fits int16 but not int32 and the macro is classified with
\* int_size = 16
C9_Witness ==
    /\ C9_Case
    /\ translation_config.int_size = Int16
    /\ \A i \in I : /\ i.IsICERepresentableByInt16
                    /\ ~i.IsICERepresentableByInt32
    /\ ie_result = <<VALID, "ENUM">>

\* C10 (call-by-name rejection): a function-like macro that passes the
\* structural preconditions and the global conditions and has an invocation
\* with an argument that has side effects or is conditionally evaluated is
\* rejected with CALLED_BY_NAME, whatever the other invocations are.
C10_CalledByName ==
    (/\ pc = "classified"
     /\ IsFunctionLike(m)
     /\ PassesStructural
     /\ PassesGlobal
     /\ \E i \in I : \/ i.DoesAnyArgumentHaveSideEffects
                     \/ i.IsAnyArgumentConditionallyEvaluated) =>
        ie_result = <<"CALLED_BY_NAME", None>>

\* every invocation satisfies every argument condition
PassesArgument == \A i \in I : Satisfies(i, ARGUMENT_CONDITIONS)

NonVoidFunctionApplicable ==
    \A i \in I : /\ ~i.IsInvokedWhereConstantExpressionRequired
                 /\ ~i.IsExpansionTypeVoid
                 /\ i.ASTKind = "Expr"

VoidFunctionApplicable ==
    \A i \in I : /\ ~i.IsInvokedWhereConstantExpressionRequired
                 /\ i.IsExpansionTypeVoid
                 /\ i.ASTKind \in {"Expr", "Stmt"}

\* C11 (function-like target selection): for a function-like macro that
\* passes the structural, global and argument conditions, the outcome is
\* Translate(NonVoidFunction) iff every invocation is not invoked where a
\* constant expression is required, has a non-void expansion type and
\* ASTKind Expr; otherwise it is Translate(VoidFunction) iff every
\* invocation is not invoked where a constant expression is required, has a
\* void expansion type and ASTKind Expr or Stmt; otherwise it is a
\* rejection.  The two targets are never both applicable.
C11_FunctionTargetSelection ==
    (/\ pc = "classified"
     /\ IsFunctionLike(m)
     /\ PassesStructural
     /\ PassesGlobal
     /\ PassesArgument) =>
        /\ ie_result = <<VALID, "NON_VOID_FUNCTION">>
              <=> NonVoidFunctionApplicable
        /\ ~NonVoidFunctionApplicable =>
              (ie_result = <<VALID, "VOID_FUNCTION">>
                 <=> VoidFunctionApplicable)
        /\ (~NonVoidFunctionApplicable /\ ~VoidFunctionApplicable) =>
              (ie_result[1] # VALID /\ ie_result[2] = None)
        /\ ~(NonVoidFunctionApplicable /\ VoidFunctionApplicable)

\* a macro with two void invocations, one of them a statement, becomes a
\* void function
C11_Witness ==
    /\ pc = "classified"
    /\ IsFunctionLike(m)
    /\ PassesStructural
    /\ PassesGlobal
    /\ PassesArgument
    /\ Cardinality(I) = 2
    /\ \E i \in I : i.ASTKind = "Stmt"
    /\ ie_result = <<VALID, "VOID_FUNCTION">>

\* every invocation satisfies the first n global conditions, as
\* check_conditions evaluates them
PassesGlobalUpTo(n) ==
    \A i \in I : \A c \in 1..n :
        ConditionCheck(GLOBAL_CONDITIONS[c].check, i, pd)

\* the macro is named in a preprocessor conditional or an invocation uses a
\* metaprogramming feature
NeedsMetaprogramming ==
    \/ m.Name \in pd.inspected_macro_names
    \/ \E i \in I : \/ i.IsNamePresentInCPPConditional
                    \/ i.HasStringification
                    \/ i.HasTokenPasting
                    \/ i.IsExpansionControlFlowStmt

\* C12 (metaprogramming rejection): a macro that passes the structural
\* preconditions and the earlier global conditions, and whose name is in the
\* inspected-by-CPP set or any of whose invocations has
\* IsNamePresentInCPPConditional, HasStringification, HasTokenPasting or
\* IsExpansionControlFlowStmt, is rejected with USE_METAPROGRAMMING; no such
\* macro ever receives a Translate outcome.
C12_MetaprogrammingRejected ==
    (pc = "classified" /\ NeedsMetaprogramming) =>
        /\ ie_result[1] # VALID
        /\ ie_result[2] = None
        /\ (PassesStructural /\ PassesGlobalUpTo(5)) =>
              ie_result = <<"USE_METAPROGRAMMING", None>>

\* a macro with two invocations without any metaprogramming feature, whose
\* name the preprocessor inspected, is rejected
C12_Witness ==
    /\ pc = "classified"
    /\ PassesStructural
    /\ PassesGlobalUpTo(6)
    /\ Cardinality(I) = 2
    /\ m.Name \in pd.inspected_macro_names
    /\ ie_result = <<"USE_METAPROGRAMMING", None>>

\* the CapturesEnvironment condition as documented: the definition file is
\* among the locally included headers and no declaration has to be altered
DocumentedCapturesEnvironmentCondition(i) ==
    /\ DefinitionLocationFilename(i) \in pd.local_includes
    /\ ~MustAlterDeclarationsToTransform(i)

\* C13 (CapturesEnvironment global condition): a macro that passes the
\* structural preconditions and the earlier global conditions is rejected
\* with CAPTURES_ENVIRONMENT exactly when some invocation does not have its
\* definition file among the locally included headers or requires altering
\* declarations to transform.
C13_CapturesEnvironment ==
    (/\ pc = "classified"
     /\ PassesStructural
     /\ PassesGlobalUpTo(3)) =>
        (ie_result = <<"CAPTURES_ENVIRONMENT", None>>
            <=> \E i \in I : ~DocumentedCapturesEnvironmentCondition(i))

----------------------------------------------------------------------------
(* Properties of the translator *)

\* the pairs that ie_def can return for the macro, over the iteration orders
Classifications ==
    { ie_def(m, pd, translation_config, order) : order \in IterationOrders(I) }

\* classification accepts the macro (the decision is the same in every order)
Accepted == \E c \in Classifications : c[1] = VALID

HasFunctionPointerType ==
    \E i \in I : \/ i.IsExpansionTypeFunctionType
                 \/ i.IsAnyArgumentTypeFunctionType

HasDeclRefExprInHeader ==
    \E i \in I : /\ i.DoesBodyContainDeclRefExpr
                 /\ endswith(DefinitionLocationFilename(i), ".h")

IsSkippedWith(r, skip_type) ==
    r.type = "SkipRecord" /\ r.skip_type = skip_type

\* a member of SkipType as a returned value
SkipTypeMember(name) == [type |-> "SkipType", name |-> name]

\* C14 (function-pointer gate runs after classification): get_macro_record
\* records a macro as skipped with DEFINITION_HAS_FUNCTION_POINTER if and
\* only if classification accepts it and some invocation has
\* IsExpansionTypeFunctionType or IsAnyArgumentTypeFunctionType (also when
\* the DeclRefExpr condition holds), and a macro that classification rejects
\* is recorded as skipped with its classification reason.
C14_FunctionPointerGate ==
    pc = "get_macro_record" =>
        /\ IsSkippedWith(record, "DEFINITION_HAS_FUNCTION_POINTER")
              <=> (Accepted /\ HasFunctionPointerType)
        /\ ~Accepted =>
              \E c \in Classifications : IsSkippedWith(record, c[1])

\* C15 (DeclRefExpr-in-header gate): for a macro that classification accepts
\* and that has no function-pointer type,
\* should_skip_due_to_technical_limitations returns
\* BODY_CONTAINS_DECL_REF_EXPR exactly when some invocation has
\* DoesBodyContainDeclRefExpr and a definition file ending in .h, whichever
\* invocation the set iterator yields first.
C15_DeclRefExprGate ==
    (/\ pc = "should_skip_due_to_technical_limitations"
     /\ ~HasFunctionPointerType) =>
        (record = SkipTypeMember("BODY_CONTAINS_DECL_REF_EXPR")
            <=> HasDeclRefExprInHeader)

\* the type signature that the invocations share
Signature == CHOOSE sig \in { i.TypeSignature : i \in I } : TRUE

\* the construct of a target, as the sequence of its pieces
Template(target) ==
    CASE target = "GLOBAL_VARIABLE" ->
            <<"static const ", Signature, " = ", m.Body, ";">>
      [] target = "ENUM" -> <<"enum { ", m.Name, " = ", m.Body, " };">>
      [] target = "NON_VOID_FUNCTION" ->
            <<"static inline ", Signature, " { return ", m.Body, "; }">>
      [] target = "VOID_FUNCTION" ->
            <<"static inline ", Signature, " { ", m.Body, "; }">>

\* C16 (emitter agrees with the classifier): for a macro that classification
\* accepts with a target and that no technical limitation excludes,
\* get_macro_record and the translate method it calls return the translation
\* record whose text is the construct of that target and whose translation
\* type is that target.
C16_EmitterAgreesWithClassifier ==
    (/\ pc \in { "get_macro_record", "translate_function_like_macro",
                 "translate_object_like_macro" }
     /\ Accepted
     /\ ~HasFunctionPointerType
     /\ ~HasDeclRefExprInHeader) =>
        \E c \in Classifications :
            record = TranslationRecord(m, I, Template(c[2]), c[2])

\* C17 (statistics totals): after generate_macro_translations,
\* total_translated + total_skipped is the number of macros handed to
\* classification, and so is the sum over both macro kinds of
\* total_translated_by_type + total_skipped_by_type.
C17_StatisticsTotals ==
    pc = "generate_macro_translations" =>
        /\ total_translated(translation_stats)
             + total_skipped(translation_stats) = Cardinality(DOMAIN pd.mm)
        /\ total_translated_by_type(translation_stats, "OBJECT_LIKE")
             + total_skipped_by_type(translation_stats, "OBJECT_LIKE")
             + total_translated_by_type(translation_stats, "FUNCTION_LIKE")
             + total_skipped_by_type(translation_stats, "FUNCTION_LIKE")
             = Cardinality(DOMAIN pd.mm)

----------------------------------------------------------------------------
(* Properties of ingestion *)

Definitions(es) == { k \in DOMAIN es : es[k].Kind = "Definition" }

DefinedOnce(es, name) ==
    Cardinality({ k \in Definitions(es) : es[k].Name = name }) = 1

DefinedTwice(es, name) ==
    Cardinality({ k \in Definitions(es) : es[k].Name = name }) >= 2

\* the positions of the records that the uniqueness filter is to keep
KeptPositions(es) ==
    { k \in DOMAIN es :
        es[k].Kind \in {"Definition", "Invocation"}
            => DefinedOnce(es, es[k].Name) }

\* the n-th smallest element of the set S of numbers
Nth(S, n) == CHOOSE x \in S : Cardinality({ y \in S : y <= x }) = n

\* C5 (name uniqueness after ingestion): the macro map never contains two
\* macro keys with the same Name.
C5_NameUniqueness ==
    \A a, b \in DOMAIN pd.mm : a.Name = b.Name => a = b

\* a stream that defines a name twice has been ingested and left a macro
C5_Witness ==
    /\ pc = "tlna_src_pd"
    /\ \E k \in Definitions(entries) : DefinedTwice(entries, entries[k].Name)
    /\ DOMAIN pd.mm # {}

\* C6 (uniqueness filter): filter_definitions returns the input records in
\* their original relative order, minus every Definition and Invocation
\* record whose Name is not the name of exactly one Definition record;
\* InspectedByCPP and Include records are kept.
C6_FilterDefinitions ==
    pc = "filtered" =>
        /\ Len(filtered_entries) = Cardinality(KeptPositions(entries))
        /\ \A n \in 1..Len(filtered_entries) :
             filtered_entries[n] = entries[Nth(KeptPositions(entries), n)]

\* a name is defined twice and invoked, and all its records are dropped
C6_Witness ==
    /\ pc = "filtered"
    /\ \E k \in Definitions(entries) :
         /\ DefinedTwice(entries, entries[k].Name)
         /\ \E j \in DOMAIN entries :
              /\ entries[j].Kind = "Invocation"
              /\ entries[j].Name = entries[k].Name
    /\ filtered_entries = <<>>

----------------------------------------------------------------------------
(* Properties of the source overlay *)

RECURSIVE SplitLines(_)
\* the lines of a text, each without its newline
SplitLines(text) ==
    IF text = <<>> THEN <<>>
    ELSE LET k == IF Contains(text, newline)
                  THEN CHOOSE j \in DOMAIN text :
                          /\ text[j] = newline
                          /\ \A h \in 1..(j - 1) : text[h] # newline
                  ELSE Len(text) + 1
         IN  <<SubSeq(text, 1, k - 1)>>
                \o SplitLines(SubSeq(text, k + 1, Len(text)))

\* translate_src_files has returned
Returned == pc \in { "written", "main_written" }

\* the file that defines the macro of an item
DefiningFile(item) == item.macro.DefinitionLocation[1]

\* the items of the translated macros of a file
Translated(path) ==
    { k \in DOMAIN translations :
        /\ translations[k].translation # PyNone
        /\ DefiningFile(translations[k]) = path }

\* the unterminated comment that begins on a line, if there is one
OpenComment(line) ==
    IF Contains(line, "/*") /\ ~Contains(line, "*/")
    THEN <<"/*">> \o SplitAfterFirst(line, "/*")
    ELSE <<>>

\* the lines of the output file of a rewritten file are those of the input
\* file with the definition of item k overlaid
Overlaid(out, in, k) ==
    LET first == int(translations[k].macro.DefinitionLocation[2])
        last == int(translations[k].macro.EndDefinitionLocation[2])
    IN  /\ out[first] = translations[k].translation.pieces
                          \o (IF first = last THEN OpenComment(in[last])
                                               ELSE <<>>)
        /\ \A i \in (first + 1)..(last - 1) : out[i] = <<>>
        /\ first < last => out[last] = OpenComment(in[last])

\* line i of a file is outside the definitions of its translated macros
OutsideDefinitions(path, i) ==
    \A k \in Translated(path) :
        \/ i < int(translations[k].macro.DefinitionLocation[2])
        \/ i > int(translations[k].macro.EndDefinitionLocation[2])

\* C18: after translate_src_files, in the output file of every rewritten
\* file, the start line of each translated macro carries the replacement,
\* every other line of its definition is blank except that an unterminated
\* comment of the end line is kept on the end line, every line outside the
\* definitions is unchanged, and the output file has as many lines as the
\* input file.
C18_OverlayEffectAndFrame ==
    Returned =>
        \A path \in DOMAIN src_file_contents :
            LET out == SplitLines(written[dst_file_path(path)])
                in == SplitLines(Concat(files[path]))
            IN  /\ Len(out) = Len(in)
                /\ \A k \in Translated(path) : Overlaid(out, in, k)
                /\ \A i \in DOMAIN in :
                     OutsideDefinitions(path, i) => out[i] = in[i]

\* C19: a macro with a translation has its defining file rewritten into the
\* output directory if and only if the file lies under the input source
\* directory and under the target source directory; main without
\* --target-src-dir takes the input source directory as the target.
C19_OverlayScope ==
    /\ Returned =>
         \A k \in DOMAIN translations :
             translations[k].translation # PyNone =>
                 LET path == DefiningFile(translations[k])
                 IN  dst_file_path(path) \in DOMAIN written
                        <=> /\ is_relative_to(path, input_src_dir)
                            /\ is_relative_to(path, target_src_dir)
    /\ pc \in { "main", "main_written" } /\ args.target_src_dir = PyNone
         => target_src_dir = input_src_dir

----------------------------------------------------------------------------
(* Properties of the merge of the analyzer outputs *)

\* the translation units whose analysis returned a non-empty result
Succeeded ==
    { k \in DOMAIN outcomes :
        outcomes[k].returncode = 0 /\ outcomes[k].stdout # <<>> }

\* the translation units whose analysis failed
Failed == { k \in DOMAIN outcomes : outcomes[k].returncode # 0 }

\* the records that a translation unit returned
RecordsOf(k) == { outcomes[k].stdout[j] : j \in DOMAIN outcomes[k].stdout }

----------------------------------------------------------------------------
(* Properties of the restrictions *)

\* the loop over the sorted records has begun
Sorted == pc \notin { "start", "filtered" }

\* the positions of the invocation records that the loop has processed and
\* that name the definition location of a macro
ProcessedInvocations ==
    { k \in 1..(entry_index - 1) :
        /\ Sorted
        /\ k <= Len(filtered_entries)
        /\ filtered_entries[k].Kind = "Invocation"
        /\ filtered_entries[k].IsDefinitionLocationValid }

\* the macro that the invocation record at position k refers to
MacroOf(k) ==
    macroDefinitionLocationToMacroObject[filtered_entries[k].DefinitionLocation]

\* the records at j and k are invocations of one macro at one location
SameInvocation(j, k) ==
    /\ MacroOf(j) = MacroOf(k)
    /\ filtered_entries[j].InvocationLocation
          = filtered_entries[k].InvocationLocation

\* the first processed record of the invocation that the record at k reports
FirstOf(k) ==
    CHOOSE j \in ProcessedInvocations :
        /\ SameInvocation(j, k)
        /\ \A h \in ProcessedInvocations : SameInvocation(h, k) => j <= h

\* C21: no invocation set of the macro map holds two invocations with the
\* same InvocationLocation, and of the processed invocation records of one
\* macro at one location the set holds the one processed first and no other.
C21_InvocationDedup ==
    /\ \A macro \in DOMAIN pd.mm :
         \A i, j \in pd.mm[macro] :
             i.InvocationLocation = j.InvocationLocation => i = j
    /\ \A k \in ProcessedInvocations :
         MacroOf(k) \in DOMAIN pd.mm =>
             /\ DelKind(filtered_entries[FirstOf(k)]) \in pd.mm[MacroOf(k)]
             /\ filtered_entries[k] # filtered_entries[FirstOf(k)]
                  => DelKind(filtered_entries[k]) \notin pd.mm[MacroOf(k)]

\* two records that report one invocation with different facts have been
\* processed, and the set of the macro holds the first of them
C21_Witness ==
    /\ pc = "src_pd"
    /\ \E j, k \in ProcessedInvocations :
         /\ j < k
         /\ SameInvocation(j, k)
         /\ filtered_entries[j] # filtered_entries[k]
         /\ MacroOf(k) \in DOMAIN pd.mm
         /\ pd.mm[MacroOf(k)] = { DelKind(filtered_entries[j]) }

\* the source macros: the macros of the definition records with a valid
\* definition location
SourceMacros ==
    { DelKind(filtered_entries[k]) :
        k \in { k \in Definitions(filtered_entries) :
                  filtered_entries[k].IsDefinitionLocationValid } }

\* the invocation records that refer to a macro
RecordsReferringTo(macro) ==
    { k \in DOMAIN filtered_entries :
        /\ filtered_entries[k].Kind = "Invocation"
        /\ filtered_entries[k].Name = macro.Name }

\* an invocation has depth > 0, is invoked inside a macro argument, or lacks
\* a valid invocation or definition location
Offending(i) ==
    \/ i.InvocationDepth > 0
    \/ i.IsInvokedInMacroArgument
    \/ ~i.IsInvocationLocationValid
    \/ ~i.IsDefinitionLocationValid

\* the invocation records that ingestion retains for a macro: those with a
\* valid definition location that are the first of their invocation location
RetainedRecords(macro) ==
    { k \in ProcessedInvocations : MacroOf(k) = macro /\ FirstOf(k) = k }

\* C22 as stated: a source macro is in the narrowed data if and only if no
\* invocation record that refers to it is offending.
C22_NarrowingByRecords ==
    pc = "tlna_src_pd" =>
        \A macro \in SourceMacros :
            macro \in DOMAIN pd.mm
                <=> \A k \in RecordsReferringTo(macro) :
                        ~Offending(filtered_entries[k])

\* C22: a source macro is in the narrowed data if and only if none of the
\* invocation records retained for it (valid definition location, first of
\* its invocation location) is offending; every invocation of every macro
\* of the narrowed data is top-level non-argument.
C22_NarrowingByRetainedInvocations ==
    pc = "tlna_src_pd" =>
        /\ DOMAIN pd.mm \subseteq SourceMacros
        /\ \A macro \in SourceMacros :
             macro \in DOMAIN pd.mm
                 <=> \A k \in RetainedRecords(macro) :
                         ~Offending(filtered_entries[k])
        /\ \A macro \in DOMAIN pd.mm :
             \A i \in pd.mm[macro] : IsTopLevelNonArgument(i)

\* a source macro with a top-level invocation and a nested one is absent
\* from the narrowed data
C22_Witness ==
    /\ pc = "tlna_src_pd"
    /\ \E macro \in SourceMacros \ DOMAIN pd.mm :
         \E j, k \in RetainedRecords(macro) :
             /\ ~Offending(filtered_entries[j])
             /\ filtered_entries[k].InvocationDepth > 0

----------------------------------------------------------------------------
(* Properties of the rejection reason *)

\* some invocation of the set fails a condition of the list
FailsList(conditions) == \E i \in I : ~Satisfies(i, conditions)

\* C23: an object-like macro that passes the structural and global
\* conditions and fails both the GlobalVariable list and the Enum list is
\* rejected with the first failing reason of the Enum list; a function-like
\* macro that passes the argument conditions too and fails both the
\* NonVoidFunction list and the VoidFunction list is rejected with the first
\* failing reason of the VoidFunction list.
C23_ReasonOfLastTarget ==
    (pc = "classified" /\ PassesStructural /\ PassesGlobal) =>
        /\ ( /\ m.IsObjectLike
             /\ FailsList(VARIABLE_CONDITIONS)
             /\ FailsList(ENUM_CONDITIONS) )
              => ie_result = <<LowestFailedReason(ENUM_CONDITIONS), None>>
        /\ ( /\ IsFunctionLike(m)
             /\ PassesArgument
             /\ FailsList(NON_VOID_CONDITIONS)
             /\ FailsList(VOID_CONDITIONS) )
              => ie_result = <<LowestFailedReason(VOID_CONDITIONS), None>>

\* a step of ingestion makes the next restriction
Narrows ==
    \/ pc = "loop" /\ pc' = "src_pd"
    \/ pc = "src_pd" /\ pc' # pc
    \/ pc = "tlna_src_pd" /\ pc' # pc

\* the macros of the narrowed data that classification accepts, whatever
\* the order in which ie_def visits their invocations
AcceptedMacros ==
    { macro \in DOMAIN pd.mm :
        \A order \in IterationOrders(pd.mm[macro]) :
            ie_def(macro, pd, translation_config, order)[1] = VALID }

\* a restriction is a subset of its predecessor in which every retained
\* macro keeps its invocation set, and has the same inspected-by-CPP names
\* and local includes
RestrictsPredecessor ==
    /\ pc' \in { "src_pd", "tlna_src_pd", "ie_pd" }
    /\ DOMAIN pd'.mm \subseteq DOMAIN pd.mm
    /\ \A macro \in DOMAIN pd'.mm : pd'.mm[macro] = pd.mm[macro]
    /\ pd'.inspected_macro_names = pd.inspected_macro_names
    /\ pd'.local_includes = pd.local_includes

\* C24: every step that narrows the data restricts its predecessor; the
\* source-only restriction keeps exactly the macros with a valid definition
\* location and the interface-equivalent restriction exactly the macros
\* that classification accepts.
C24_RestrictionLattice ==
    [][ Narrows =>
          /\ RestrictsPredecessor
          /\ pc = "loop" =>
               DOMAIN pd'.mm = { macro \in DOMAIN pd.mm :
                                   macro.IsDefinitionLocationValid }
          /\ pc = "tlna_src_pd" => DOMAIN pd'.mm = AcceptedMacros ]_vars

----------------------------------------------------------------------------
(* Properties of the analysis cache *)

\* C25: the result that a worker returns from the cache for a compile
\* command was produced by analysing the file of that command, and two
\* compile commands of the split for different source files have different
\* cache paths.
C25_CachePerTranslationUnit ==
    /\ \A k \in DOMAIN futures :
         futures[k].state = "FINISHED" /\ futures[k].cached
            => futures[k].result = AnalysisOf(split_compile_commands[k])
    /\ \A j, k \in DOMAIN split_compile_commands :
         split_compile_commands[j].file # split_compile_commands[k].file
            => get_cache_path(split_compile_commands[j])
                  # get_cache_path(split_compile_commands[k])

----------------------------------------------------------------------------
(* Properties of the translation map *)

\* C26: after any sequence of generate_macro_translations calls on one
\* translator, the call returns a map whose keys are exactly the macros of
\* the preprocessor data passed to it, with None for a rejected or skipped
\* macro and the rendered text for a translated one, and with no entry of
\* an earlier call.
C26_TranslationMapMatchesInput ==
    pc \in { "generate_macro_translations",
             "generate_macro_translations_again" } =>
        /\ record.type = "dict"
        /\ DOMAIN record.translationMap = DOMAIN pd.mm
        /\ \A macro \in DOMAIN pd.mm :
             /\ ~Accepted => record.translationMap[macro] = PyNone
             /\ \/ record.translationMap[macro] = PyNone
                \/ \E c \in Classifications :
                     /\ c[1] = VALID
                     /\ record.translationMap[macro] = Template(c[2])

----------------------------------------------------------------------------
(* Properties of the assertions *)

\* the positions after a call that returns the record of a macro
RecordReturned ==
    pc \in { "get_macro_record", "translate_function_like_macro",
             "translate_object_like_macro" }

\* no assert of the classification of m trips, in any order of the set
ClassificationAssertsHold ==
    \A order \in IterationOrders(I) :
        /\ \A a \in ie_def_asserts(m, pd, translation_config, order) : a[3]
        /\ ie_def(m, pd, translation_config, order)[1] # "AssertionError"

\* no assert of the translation of the object-like macro m trips
TranslationAssertsHold ==
    pc = "translate_object_like_macro" =>
        \A a \in translate_object_like_macro_asserts(Self, is_) : a[3]

\* C27: on a preprocessor data narrowed to the top-level non-argument
\* invocations, no assert of the classification or of the translation of a
\* macro is evaluated on an invocation for which it fails, and the outcome
\* of translating a macro is a translation or a tagged rejection, never an
\* error.
C27_AssertionValidity ==
    pc # "src_pd" =>
        /\ ClassificationAssertsHold
        /\ TranslationAssertsHold
        /\ RecordReturned =>
              record.type \in { "TranslationRecord", "SkipRecord" }

====
